---------------------------- MODULE Spec2Model ----------------------------
(***************************************************************************)
(* Secure request pipeline of the Kibana MCP server: input guardrails,     *)
(* backend client with retry, PII redaction, audit logging and the         *)
(* createSecureTool orchestration.                                         *)
(*                                                                         *)
(* Text is modelled as a sequence of one-character strings, JSON values    *)
(* as tagged records, so that serialisation, regular expressions and glob  *)
(* matching are computed character by character as the code does.         *)
(***************************************************************************)
EXTENDS Integers, Sequences, FiniteSets, TLC

(***************************************************************************)
(* Characters and text                                                     *)
(***************************************************************************)
UpperChars == <<"A","B","C","D","E","F","G","H","I","J","K","L","M",
                "N","O","P","Q","R","S","T","U","V","W","X","Y","Z">>
LowerChars == <<"a","b","c","d","e","f","g","h","i","j","k","l","m",
                "n","o","p","q","r","s","t","u","v","w","x","y","z">>
DigitChars == <<"0","1","2","3","4","5","6","7","8","9">>

Range(f) == {f[i] : i \in DOMAIN f}

IsUpper(c) == c \in Range(UpperChars)
IsLower(c) == c \in Range(LowerChars)
IsDigit(c) == c \in Range(DigitChars)

\* String.prototype.toLowerCase on one character (ASCII letters).
LowerChar(c) ==
    IF IsUpper(c)
    THEN LowerChars[CHOOSE i \in DOMAIN UpperChars : UpperChars[i] = c]
    ELSE c

toLowerCase(s) == [i \in DOMAIN s |-> LowerChar(s[i])]

\* String.prototype.includes
includes(s, sub) ==
    \E i \in 1..(Len(s) - Len(sub) + 1) : SubSeq(s, i, i + Len(sub) - 1) = sub

\* The sequence with the same elements as the function f on 1..n.
Tuple(f) == SubSeq(f, 1, Len(f))

SetMin(S) == CHOOSE x \in S : \A y \in S : x <= y
SetMax(S) == CHOOSE x \in S : \A y \in S : x >= y

\* Concatenation of parts[lo..hi], by halves.
RECURSIVE FlattenRange(_, _, _)
FlattenRange(parts, lo, hi) ==
    IF lo > hi THEN <<>>
    ELSE IF lo = hi THEN parts[lo]
    ELSE FlattenRange(parts, lo, (lo + hi) \div 2)
         \o FlattenRange(parts, ((lo + hi) \div 2) + 1, hi)

Flatten(parts) == FlattenRange(parts, 1, Len(parts))

\* Array.prototype.join
RECURSIVE join(_, _)
join(parts, sep) ==
    IF parts = <<>> THEN <<>>
    ELSE IF Len(parts) = 1 THEN parts[1]
    ELSE parts[1] \o sep \o join(Tail(parts), sep)

\* Decimal rendering of a natural number.
RECURSIVE NatToText(_)
NatToText(n) ==
    IF n < 10 THEN <<DigitChars[n + 1]>>
    ELSE NatToText(n \div 10) \o <<DigitChars[(n % 10) + 1]>>

(***************************************************************************)
(* JSON values                                                             *)
(***************************************************************************)
JStr(s)   == [t |-> "str",  v |-> s]
JNum(n)   == [t |-> "num",  v |-> n]
JBool(b)  == [t |-> "bool", v |-> b]
JArr(xs)  == [t |-> "arr",  v |-> xs]
\* kvs is the sequence of <<key, value>> pairs in insertion order.
JObj(kvs) == [t |-> "obj",  v |-> kvs]
JNull == [t |-> "null", v |-> <<>>]
Undefined == [t |-> "undef", v |-> <<>>]

\* obj[key] (undefined when obj is not an object or has no such key;
\* obj?.key when obj itself is undefined).
Get(obj, key) ==
    IF obj.t = "obj" /\ \E i \in DOMAIN obj.v : obj.v[i][1] = key
    THEN obj.v[CHOOSE i \in DOMAIN obj.v : obj.v[i][1] = key][2]
    ELSE Undefined

\* JavaScript truthiness of a JSON value.
Truthy(x) ==
    CASE x.t = "undef" -> FALSE
      [] x.t = "null"  -> FALSE
      [] x.t = "bool"  -> x.v
      [] x.t = "num"   -> x.v # 0
      [] x.t = "str"   -> x.v # <<>>
      [] OTHER         -> TRUE

\* Characters JSON.stringify escapes inside a string literal.
EscapeChar(c) ==
    IF c = "\"" THEN <<"\\", "\"">>
    ELSE IF c = "\\" THEN <<"\\", "\\">>
    ELSE <<c>>

EscapeText(s) == Flatten(Tuple([i \in DOMAIN s |-> EscapeChar(s[i])]))

Quote(s) == <<"\"">> \o EscapeText(s) \o <<"\"">>

\* JSON.stringify: undefined members of an object are left out, undefined
\* elements of an array are written as null.
RECURSIVE stringify(_)
RECURSIVE stringifyElems(_)
RECURSIVE stringifyMembers(_, _)
stringifyElems(xs) ==
    IF xs = <<>> THEN <<>>
    ELSE (IF Head(xs).t = "undef" THEN <<"n","u","l","l">> ELSE stringify(Head(xs)))
         \o (IF Len(xs) > 1 THEN <<",">> ELSE <<>>)
         \o stringifyElems(Tail(xs))
stringifyMembers(kvs, first) ==
    IF kvs = <<>> THEN <<>>
    ELSE IF Head(kvs)[2].t = "undef" THEN stringifyMembers(Tail(kvs), first)
    ELSE (IF first THEN <<>> ELSE <<",">>)
         \o Quote(Head(kvs)[1]) \o <<":">> \o stringify(Head(kvs)[2])
         \o stringifyMembers(Tail(kvs), FALSE)
stringify(x) ==
    CASE x.t = "str"  -> Quote(x.v)
      [] x.t = "num"  -> IF x.v < 0 THEN <<"-">> \o NatToText(-x.v) ELSE NatToText(x.v)
      [] x.t = "bool" -> IF x.v THEN <<"t","r","u","e">> ELSE <<"f","a","l","s","e">>
      [] x.t = "null" -> <<"n","u","l","l">>
      [] x.t = "arr"  -> <<"[">> \o stringifyElems(x.v) \o <<"]">>
      [] x.t = "obj"  -> <<"{">> \o stringifyMembers(x.v, TRUE) \o <<"}">>

(***************************************************************************)
(* Thrown values                                                           *)
(***************************************************************************)
\* error.response of a fault that carries no HTTP response.
NoResponse == [status |-> 0, data |-> Undefined]

\* new Error(message)
Error(message) == [kind |-> "Error", message |-> message, response |-> NoResponse]

\* The value `undefined` used as a thrown value.
ThrownUndefined == [kind |-> "undefined", message |-> <<>>, response |-> NoResponse]

Returned(value) == [ok |-> TRUE, value |-> value, error |-> ThrownUndefined]
Thrown(error)   == [ok |-> FALSE, value |-> Undefined, error |-> error]

(***************************************************************************)
(* Input guardrails (inputSanitizer)                                       *)
(***************************************************************************)
BLOCKED_KEYWORDS ==
    << <<"s","c","r","i","p","t">>,
       <<"_","u","p","d","a","t","e">>,
       <<"_","d","e","l","e","t","e">>,
       <<"_","b","u","l","k">>,
       <<"c","t","x",".","_","s","o","u","r","c","e">> >>

\* One character of the class [a-zA-Z0-9\-.*,_]
IndexNameChar(c) ==
    IsUpper(c) \/ IsLower(c) \/ IsDigit(c) \/ c \in {"-", ".", "*", ",", "_"}

\* A name test without the ^ and $ anchors.
INDEX_NAME_REGEX_unanchored(index) ==
    \E i \in DOMAIN index : IndexNameChar(index[i])

\* /^[a-zA-Z0-9\-.*,_]+$/.test(index)
INDEX_NAME_REGEX(index) ==
    /\ Len(index) >= 1
    /\ \A i \in DOMAIN index : IndexNameChar(index[i])

ReadOnlyMessage(keyword) ==
    <<"Q","u","e","r","y"," ","r","e","j","e","c","t","e","d",":"," ","c","o","n","t","a","i","n","s"," ","b","l","o","c","k","e","d"," ","k","e","y","w","o","r","d"," ","\"">>
    \o keyword \o
    <<"\"","."," ","O","n","l","y"," ","r","e","a","d","-","o","n","l","y"," ","q","u","e","r","i","e","s"," ","a","r","e"," ","a","l","l","o","w","e","d",".">>

\* The loop of validateReadOnlyQuery from keyword number k on.
RECURSIVE scanKeywords(_, _)
scanKeywords(serialized, k) ==
    IF k > Len(BLOCKED_KEYWORDS) THEN Returned(Undefined)
    ELSE IF includes(serialized, BLOCKED_KEYWORDS[k])
         THEN Thrown(Error(ReadOnlyMessage(BLOCKED_KEYWORDS[k])))
         ELSE scanKeywords(serialized, k + 1)

\* A scan of the serialized body as it stands, not lower-cased.
validateReadOnlyQuery_caseSensitive(query) ==
    scanKeywords(stringify(query), 1)

validateReadOnlyQuery(query) ==
    scanKeywords(toLowerCase(stringify(query)), 1)

InvalidIndexMessage(index) ==
    <<"I","n","v","a","l","i","d"," ","i","n","d","e","x"," ","n","a","m","e"," ","\"">>
    \o index \o
    <<"\"","."," ","O","n","l","y"," ","a","l","p","h","a","n","u","m","e","r","i","c"," ","c","h","a","r","a","c","t","e","r","s",","," ","h","y","p","h","e","n","s",","," ","d","o","t","s",","," ","a","s","t","e","r","i","s","k","s",","," ","c","o","m","m","a","s",","," ","a","n","d"," ","u","n","d","e","r","s","c","o","r","e","s"," ","a","r","e"," ","a","l","l","o","w","e","d",".">>

validateIndexName(index) ==
    IF index = <<>> \/ ~INDEX_NAME_REGEX(index)
    THEN Thrown(Error(InvalidIndexMessage(index)))
    ELSE Returned(Undefined)

(***************************************************************************)
(* Access scope (esClient.validateIndex, globMatch)                        *)
(***************************************************************************)
\* new RegExp('^' + escaped pattern with * as .* + '$').test(value), for
\* patterns made of literal characters and *.
RECURSIVE globFrom(_, _, _, _)
globFrom(pattern, i, value, j) ==
    IF i > Len(pattern) THEN j > Len(value)
    ELSE IF pattern[i] = "*"
         THEN \E n \in j..(Len(value) + 1) : globFrom(pattern, i + 1, value, n)
         ELSE /\ j <= Len(value)
              /\ value[j] = pattern[i]
              /\ globFrom(pattern, i + 1, value, j + 1)

globMatch(pattern, value) == globFrom(pattern, 1, value, 1)

NotAllowedMessage(index, patterns) ==
    <<"I","n","d","e","x"," ","\"">> \o index \o
    <<"\""," ","i","s"," ","n","o","t"," ","i","n"," ","t","h","e"," ","a","l","l","o","w","e","d"," ","i","n","d","e","x"," ","p","a","t","t","e","r","n","s",":"," ">>
    \o join(patterns, <<",", " ">>)

isAllowed(allowedIndexPatterns, index) ==
    \E k \in DOMAIN allowedIndexPatterns : globMatch(allowedIndexPatterns[k], index)

\* An access check that stops after the name test.
validateIndex_nameOnly(allowedIndexPatterns, index) ==
    validateIndexName(index)

validateIndex(allowedIndexPatterns, index) ==
    IF ~validateIndexName(index).ok THEN validateIndexName(index)
    ELSE IF Len(allowedIndexPatterns) > 0 /\ ~isAllowed(allowedIndexPatterns, index)
         THEN Thrown(Error(NotAllowedMessage(index, allowedIndexPatterns)))
         ELSE Returned(Undefined)

(***************************************************************************)
(* Regular expressions of the redaction patterns                           *)
(*                                                                         *)
(* Each pattern is a concatenation of quantified character classes and     *)
(* word boundaries.  An atom is [cls, min, max]; max = -1 is unbounded.    *)
(* Quantifiers are greedy and backtrack, as in the JavaScript engine.      *)
(***************************************************************************)
IsSpace(c) == c \in {" ", "\t", "\n", "\r"}
IsWordChar(c) == IsUpper(c) \/ IsLower(c) \/ IsDigit(c) \/ c = "_"

InClass(c, cls) ==
    CASE cls = "\\d"            -> IsDigit(c)
      [] cls = "[\\s-]"         -> IsSpace(c) \/ c = "-"
      [] cls = "[\\s.-]"        -> IsSpace(c) \/ c \in {".", "-"}
      [] cls = "[A-Z]"          -> IsUpper(c)
      [] cls = "[A-Z0-9]"       -> IsUpper(c) \/ IsDigit(c)
      [] cls = "[a-zA-Z]"       -> IsUpper(c) \/ IsLower(c)
      [] cls = "[a-zA-Z0-9._%+-]" ->
             IsUpper(c) \/ IsLower(c) \/ IsDigit(c) \/ c \in {".", "_", "%", "+", "-"}
      [] cls = "[a-zA-Z0-9.-]"  -> IsUpper(c) \/ IsLower(c) \/ IsDigit(c) \/ c \in {".", "-"}
      [] cls = "-"              -> c = "-"
      [] cls = "@"              -> c = "@"
      [] cls = "\\."            -> c = "."
      [] cls = "\\+"            -> c = "+"

Atom(cls, min, max) == [cls |-> cls, min |-> min, max |-> max]
WordBoundary == Atom("\\b", 0, 0)

\* \b at the position before s[pos].
IsBoundary(s, pos) ==
    LET before == pos > 1 /\ IsWordChar(s[pos - 1])
        after  == pos <= Len(s) /\ IsWordChar(s[pos])
    IN  before # after

\* Number of consecutive characters of class cls from pos, at most max.
RunLen(s, pos, cls, max) ==
    LET avail == Len(s) - pos + 1
        cap   == IF max = -1 THEN avail ELSE IF max < avail THEN max ELSE avail
        stops == {k \in 0..(cap - 1) : ~InClass(s[pos + k], cls)}
    IN  IF stops = {} THEN cap ELSE SetMin(stops)

\* End (position after the last matched character) of the match of atoms
\* k.. starting at pos, or -1.  A quantified atom takes the largest
\* repetition count, from its greedy maximum down to its minimum, with
\* which the rest of the pattern matches: the first one backtracking finds.
RECURSIVE matchAtoms(_, _, _, _)
matchAtoms(s, atoms, k, pos) ==
    IF k > Len(atoms) THEN pos
    ELSE IF atoms[k].cls = "\\b"
         THEN IF IsBoundary(s, pos) THEN matchAtoms(s, atoms, k + 1, pos) ELSE -1
         ELSE LET run  == RunLen(s, pos, atoms[k].cls, atoms[k].max)
                  fits == {n \in atoms[k].min..run :
                              matchAtoms(s, atoms, k + 1, pos + n) # -1}
              IN  IF fits = {} THEN -1
                  ELSE matchAtoms(s, atoms, k + 1, pos + SetMax(fits))

(***************************************************************************)
(* Redaction engine (piiRedaction)                                         *)
(***************************************************************************)
\* match.replace(/\D/g, '')
digitsOf(s) == SelectSeq(s, IsDigit)

DigitValue(c) == (CHOOSE i \in DOMAIN DigitChars : DigitChars[i] = c) - 1

\* The loop of luhnCheck from index i (1-based) down to the first digit.
RECURSIVE luhnSum(_, _, _)
luhnSum(digits, i, alternate) ==
    IF i < 1 THEN 0
    ELSE LET n == DigitValue(digits[i])
             d == IF alternate THEN (IF 2 * n > 9 THEN 2 * n - 9 ELSE 2 * n) ELSE n
         IN  d + luhnSum(digits, i - 1, ~alternate)

luhnCheck(num) ==
    LET digits == digitsOf(num) IN luhnSum(digits, Len(digits), FALSE) % 10 = 0

\* s.slice(-n)
LastN(s, n) == IF Len(s) <= n THEN s ELSE SubSeq(s, Len(s) - n + 1, Len(s))

Stars(n) == [i \in 1..n |-> "*"]

\* A mask that skips the checksum.
maskCreditCard_unchecked(match) ==
    LET digits == digitsOf(match)
        sep == IF "-" \in Range(match) THEN <<"-">>
               ELSE IF " " \in Range(match) THEN <<" ">> ELSE <<>>
    IN  IF Len(digits) # 16 THEN match
        ELSE Stars(4) \o sep \o Stars(4) \o sep \o Stars(4) \o sep \o LastN(digits, 4)

maskCreditCard(match) ==
    LET digits == digitsOf(match)
        sep == IF "-" \in Range(match) THEN <<"-">>
               ELSE IF " " \in Range(match) THEN <<" ">> ELSE <<>>
    IN  IF Len(digits) # 16 \/ ~luhnCheck(digits) THEN match
        ELSE Stars(4) \o sep \o Stars(4) \o sep \o Stars(4) \o sep \o LastN(digits, 4)

maskIban(match) ==
    IF Len(match) < 15 THEN match
    ELSE SubSeq(match, 1, 4) \o Stars(4) \o LastN(match, 4)

maskSsn(match) == <<"*","*","*","-","*","*","-","*","*","*","*">>

\* const [local, domain] = match.split('@')
maskEmail(match) ==
    LET at == CHOOSE i \in DOMAIN match :
                  match[i] = "@" /\ \A j \in 1..(i - 1) : match[j] # "@"
        rest == SubSeq(match, at + 1, Len(match))
        domain == IF \E i \in DOMAIN rest : rest[i] = "@"
                  THEN SubSeq(rest, 1, (CHOOSE i \in DOMAIN rest :
                           rest[i] = "@" /\ \A j \in 1..(i - 1) : rest[j] # "@") - 1)
                  ELSE rest
    IN  <<match[1]>> \o Stars(3) \o <<"@">> \o domain

maskPhone(match) ==
    LET digits == digitsOf(match)
    IN  IF Len(digits) < 8 THEN match
        ELSE <<"+">> \o SubSeq(digits, 1, 2) \o Stars(3) \o LastN(digits, 2)

PATTERNS ==
    << [name  |-> "credit_card",
        regex |-> << WordBoundary,
                     Atom("\\d", 4, 4), Atom("[\\s-]", 0, 1),
                     Atom("\\d", 4, 4), Atom("[\\s-]", 0, 1),
                     Atom("\\d", 4, 4), Atom("[\\s-]", 0, 1),
                     Atom("\\d", 4, 4), WordBoundary >>],
       [name  |-> "iban",
        regex |-> << WordBoundary, Atom("[A-Z]", 2, 2), Atom("\\d", 2, 2),
                     Atom("[A-Z0-9]", 4, 30), WordBoundary >>],
       [name  |-> "ssn",
        regex |-> << WordBoundary, Atom("\\d", 3, 3), Atom("-", 1, 1),
                     Atom("\\d", 2, 2), Atom("-", 1, 1), Atom("\\d", 4, 4),
                     WordBoundary >>],
       [name  |-> "email",
        regex |-> << WordBoundary, Atom("[a-zA-Z0-9._%+-]", 1, -1), Atom("@", 1, 1),
                     Atom("[a-zA-Z0-9.-]", 1, -1), Atom("\\.", 1, 1),
                     Atom("[a-zA-Z]", 2, -1), WordBoundary >>],
       [name  |-> "phone",
        regex |-> << Atom("\\+", 1, 1), Atom("\\d", 1, 3), Atom("[\\s.-]", 0, 1),
                     Atom("\\d", 1, 1), Atom("[\\s.-]", 0, 1), Atom("\\d", 3, 4),
                     Atom("[\\s.-]", 0, 1), Atom("\\d", 3, 4), WordBoundary >>] >>

mask(name, match) ==
    CASE name = "credit_card" -> maskCreditCard(match)
      [] name = "iban"        -> maskIban(match)
      [] name = "ssn"         -> maskSsn(match)
      [] name = "email"       -> maskEmail(match)
      [] name = "phone"       -> maskPhone(match)

\* typesFound.add(name) on an insertion-ordered Set.
AddType(types, name) ==
    IF name \in Range(types) THEN types ELSE Append(types, name)

\* The positions a global replace visits: it starts at 1 and goes from p to
\* next[p].  jump is next iterated 2^k times; every round doubles the number
\* of steps covered.
RECURSIVE visitedFrom(_, _)
visitedFrom(jump, seen) ==
    LET more == seen \cup {jump[p] : p \in seen}
    IN  IF more = seen THEN seen
        ELSE visitedFrom(Tuple([p \in DOMAIN jump |-> jump[jump[p]]]), more)

\* The text a global replace builds from the piece it puts at every
\* position, and the number of matches the callback changed.
replaced(s, ends, pieces) ==
    [result |-> Flatten(pieces),
     count  |-> Cardinality({p \in DOMAIN pieces :
                                 /\ pieces[p] # <<>>
                                 /\ ends[p] # -1
                                 /\ pieces[p] # SubSeq(s, p, ends[p] - 1)})]

\* The callback of redactString at every position the scan visits.
replaceVisited(s, name, ends, visited) ==
    replaced(s, ends,
             Tuple([p \in DOMAIN ends |->
                        IF p \notin visited THEN <<>>
                        ELSE IF ends[p] = -1 THEN <<s[p]>>
                        ELSE mask(name, SubSeq(s, p, ends[p] - 1))]))

\* The scan of a global replace over the match ends of every position: it
\* resumes after a match and moves on by one character where none starts.
replaceMatches(s, name, ends) ==
    replaceVisited(s, name, ends,
                   visitedFrom(Tuple([p \in 1..(Len(s) + 1) |->
                                          IF p > Len(s) THEN Len(s) + 1
                                          ELSE IF ends[p] = -1 THEN p + 1
                                          ELSE ends[p]]),
                               {1}))

\* result.replace(pattern.regex, callback)
replaceAll(s, pattern) ==
    replaceMatches(s, pattern.name,
                   Tuple([p \in 1..Len(s) |-> matchAtoms(s, pattern.regex, 1, p)]))

\* The loop of redactString over PATTERNS from pattern number k on.
RECURSIVE redactPatterns(_, _, _, _)
redactPatterns(value, k, count, types) ==
    IF k > Len(PATTERNS) THEN [result |-> value, count |-> count, types |-> types]
    ELSE LET r == replaceAll(value, PATTERNS[k])
         IN  redactPatterns(r.result, k + 1, count + r.count,
                            IF r.count > 0 THEN AddType(types, PATTERNS[k].name)
                            ELSE types)

redactString(value, typesFound) == redactPatterns(value, 1, 0, typesFound)

RECURSIVE redactRecursive(_, _)
RECURSIVE redactElems(_, _)
RECURSIVE redactEntries(_, _)
redactElems(xs, types) ==
    IF xs = <<>> THEN [result |-> <<>>, count |-> 0, types |-> types]
    ELSE LET h == redactRecursive(Head(xs), types)
             r == redactElems(Tail(xs), h.types)
         IN  [result |-> <<h.result>> \o r.result,
              count  |-> h.count + r.count, types |-> r.types]
\* The loop over Object.entries(data).  result[key] = r is an assignment to
\* a fresh {}: for the key __proto__ it runs the prototype setter of
\* Object.prototype and creates no own property, so that key is not among
\* the entries of the result.
redactEntries(kvs, types) ==
    IF kvs = <<>> THEN [result |-> <<>>, count |-> 0, types |-> types]
    ELSE LET h == redactRecursive(Head(kvs)[2], types)
             r == redactEntries(Tail(kvs), h.types)
         IN  [result |-> (IF Head(kvs)[1] = <<"_","_","p","r","o","t","o","_","_">> THEN <<>>
                          ELSE << <<Head(kvs)[1], h.result>> >>) \o r.result,
              count  |-> h.count + r.count, types |-> r.types]
redactRecursive(data, typesFound) ==
    CASE data.t = "str" ->
             LET r == redactString(data.v, typesFound)
             IN  [result |-> JStr(r.result), count |-> r.count, types |-> r.types]
      [] data.t = "arr" ->
             LET r == redactElems(data.v, typesFound)
             IN  [result |-> JArr(r.result), count |-> r.count, types |-> r.types]
      [] data.t = "obj" ->
             LET r == redactEntries(data.v, typesFound)
             IN  [result |-> JObj(r.result), count |-> r.count, types |-> r.types]
      [] OTHER -> [result |-> data, count |-> 0, types |-> typesFound]

redactPII(data) ==
    LET r == redactRecursive(data, <<>>)
    IN  [redactedData |-> r.result, redactionCount |-> r.count, redactedTypes |-> r.types]

(***************************************************************************)
(* Server configuration (config.loadConfig)                                *)
(*                                                                         *)
(* An environment gives each variable as text; the empty text stands for   *)
(* an unset (or empty) variable, which `||` replaces by the default.       *)
(***************************************************************************)
\* parseInt(text, 10) of a text of decimal digits.
RECURSIVE parseInt(_)
parseInt(text) ==
    IF text = <<>> THEN 0
    ELSE 10 * parseInt(SubSeq(text, 1, Len(text) - 1)) + DigitValue(text[Len(text)])

OrDefault(text, default) == IF text = <<>> THEN default ELSE text

\* String.prototype.split(',')
RECURSIVE splitComma(_, _)
splitComma(text, current) ==
    IF text = <<>> THEN <<current>>
    ELSE IF Head(text) = ","
         THEN <<current>> \o splitComma(Tail(text), <<>>)
         ELSE splitComma(Tail(text), Append(current, Head(text)))

\* String.prototype.trim
RECURSIVE trim(_)
trim(text) ==
    IF text # <<>> /\ IsSpace(Head(text)) THEN trim(Tail(text))
    ELSE IF text # <<>> /\ IsSpace(text[Len(text)])
         THEN trim(SubSeq(text, 1, Len(text) - 1))
         ELSE text

NonEmpty(text) == text # <<>>

Min(a, b) == IF a < b THEN a ELSE b
Max(a, b) == IF a > b THEN a ELSE b

loadConfig(env) ==
    [ allowedIndexPatterns |->
          IF env.ALLOWED_INDEX_PATTERNS # <<>>
          THEN SelectSeq([i \in DOMAIN splitComma(env.ALLOWED_INDEX_PATTERNS, <<>>) |->
                             trim(splitComma(env.ALLOWED_INDEX_PATTERNS, <<>>)[i])],
                         NonEmpty)
          ELSE <<>>,
      maxSearchSize |->
          Min(Max(1, parseInt(OrDefault(env.MAX_SEARCH_SIZE, <<"1","0","0">>))), 500),
      retryAttempts |-> parseInt(OrDefault(env.RETRY_ATTEMPTS, <<"3">>)),
      retryDelayMs  |-> parseInt(OrDefault(env.RETRY_DELAY_MS, <<"1","0","0","0">>)),
      auditEnabled  |-> env.AUDIT_ENABLED # <<"f","a","l","s","e">>,
      piiRedactionEnabled |-> env.PII_REDACTION_ENABLED # <<"f","a","l","s","e">> ]

(***************************************************************************)
(* Backend client (esClient): requests, withRetry                          *)
(***************************************************************************)
\* An AxiosError for a response with an HTTP error status.
HttpError(status, data) ==
    [kind |-> "Error",
     message |-> <<"R","e","q","u","e","s","t"," ","f","a","i","l","e","d"," ","w","i","t","h"," ","s","t","a","t","u","s"," ","c","o","d","e"," ">> \o NatToText(status),
     response |-> [status |-> status, data |-> data]]

\* An AxiosError without a response (connection failure, request timeout).
NetworkError ==
    [kind |-> "Error", message |-> <<"t","i","m","e","o","u","t"," ","o","f"," ","3","0","0","0","0","m","s"," ","e","x","c","e","e","d","e","d">>,
     response |-> NoResponse]

\* The test in withRetry's catch that rethrows at once:
\* status && status >= 400 && status < 500 && status !== 429
isClientError(status) ==
    status # 0 /\ status >= 400 /\ status < 500 /\ status # 429

RECURSIVE pow2(_)
pow2(n) == IF n = 0 THEN 1 ELSE 2 * pow2(n - 1)

\* A backoff that does not grow.
backoffDelay_constant(retryDelayMs, attempt) == retryDelayMs

\* retryDelayMs * Math.pow(2, attempt)
backoffDelay(retryDelayMs, attempt) == retryDelayMs * pow2(attempt)

\* The test that guards the backoff sleep: attempt < retryAttempts - 1
sleepsBeforeNext(attempt, retryAttempts) == attempt < retryAttempts - 1

\* A loop that runs once more: attempt <= retryAttempts
loopContinues_inclusive(attempt, retryAttempts) == attempt <= retryAttempts

\* The loop condition of withRetry: attempt < retryAttempts
loopContinues(attempt, retryAttempts) == attempt < retryAttempts

\* A call of withRetry(fn) in flight.  st is "attempting" (fn is about to be
\* or is being awaited), "sleeping" (in the backoff timer), "returned" or
\* "thrown".  responses records the HTTP status of every attempt made
\* (200 for a success, 0 for a failure without a response) and sleeps the
\* delay of every backoff timer started.
NewCall(op, target, request) ==
    [op |-> op, target |-> target, request |-> request,
     st |-> "attempting", attempt |-> 0, lastError |-> ThrownUndefined,
     value |-> Undefined, responses |-> <<>>, sleeps |-> <<>>]

\* Control reaches the loop condition with the call's attempt counter.
loopTest(config, call) ==
    IF loopContinues(call.attempt, config.retryAttempts)
    THEN [call EXCEPT !.st = "attempting"]
    ELSE [call EXCEPT !.st = "thrown"]       \* throw lastError

\* withRetry entered: let lastError; attempt = 0; loop condition.
withRetry(config, op, target, request) ==
    loopTest(config, NewCall(op, target, request))

\* A call that threw before withRetry was reached (validateIndex).
Rejected(op, target, error) ==
    [NewCall(op, target, Undefined) EXCEPT !.st = "thrown", !.lastError = error]

\* fn() fulfilled with data: return await fn().
attemptSucceeded(call, data) ==
    [call EXCEPT !.st = "returned", !.value = data,
                 !.responses = Append(@, 200)]

\* fn() rejected with error: the catch block of withRetry.
attemptFailed(config, call, error) ==
    LET status == error.response.status
        seen   == [call EXCEPT !.lastError = error,
                               !.responses = Append(@, status)]
    IN  IF isClientError(status)
        THEN [seen EXCEPT !.st = "thrown"]
        ELSE IF sleepsBeforeNext(call.attempt, config.retryAttempts)
             THEN [seen EXCEPT !.st = "sleeping",
                               !.sleeps = Append(@, backoffDelay(config.retryDelayMs,
                                                                 call.attempt))]
             ELSE loopTest(config, [seen EXCEPT !.attempt = @ + 1])

\* The backoff timer fires: attempt++ and the loop condition.
afterSleep(config, call) == loopTest(config, [call EXCEPT !.attempt = @ + 1])

IsSettled(call) == call.st \in {"returned", "thrown"}

\* The awaited result of a call: its value, or the value it threw.
Await(call) ==
    IF call.st = "returned" THEN Returned(call.value) ELSE Thrown(call.lastError)

\* { ...obj, [key]: value }
Put(obj, key, value) ==
    IF \E i \in DOMAIN obj.v : obj.v[i][1] = key
    THEN JObj([i \in DOMAIN obj.v |->
                  IF obj.v[i][1] = key THEN <<key, value>> ELSE obj.v[i]])
    ELSE JObj(Append(obj.v, <<key, value>>))

\* A search that sends the requested size as it is.
search_uncapped(config, index, body, size) ==
    IF ~validateIndex(config.allowedIndexPatterns, index).ok
    THEN Rejected("search", index,
                  validateIndex(config.allowedIndexPatterns, index).error)
    ELSE withRetry(config, "search", index,
                   [method |-> "POST",
                    path |-> <<"/">> \o index \o <<"/","_","s","e","a","r","c","h">>,
                    body |-> Put(body, <<"s","i","z","e">>, JNum(size))])

\* esClient.search(index, body, size)
search(config, index, body, size) ==
    IF ~validateIndex(config.allowedIndexPatterns, index).ok
    THEN Rejected("search", index,
                  validateIndex(config.allowedIndexPatterns, index).error)
    ELSE withRetry(config, "search", index,
                   [method |-> "POST",
                    path |-> <<"/">> \o index \o <<"/","_","s","e","a","r","c","h">>,
                    body |-> Put(body, <<"s","i","z","e">>,
                                 JNum(Min(size, config.maxSearchSize)))])

\* esClient.catIndices(pattern)
catIndices(config, pattern) ==
    withRetry(config, "catIndices", pattern,
              [method |-> "GET",
               path |-> <<"/","_","c","a","t","/","i","n","d","i","c","e","s","/">> \o pattern
                        \o <<"?","f","o","r","m","a","t","=","j","s","o","n","&","h","=","i","n","d","e","x",",","h","e","a","l","t","h",",","s","t","a","t","u","s",",","d","o","c","s",".","c","o","u","n","t",",","s","t","o","r","e",".","s","i","z","e">>,
               body |-> Undefined])

\* esClient.getMapping(index)
getMapping(config, index) ==
    IF ~validateIndex(config.allowedIndexPatterns, index).ok
    THEN Rejected("getMapping", index,
                  validateIndex(config.allowedIndexPatterns, index).error)
    ELSE withRetry(config, "getMapping", index,
                   [method |-> "GET",
                    path |-> <<"/">> \o index \o <<"/","_","m","a","p","p","i","n","g">>,
                    body |-> Undefined])

(***************************************************************************)
(* Tool results (types.ToolResult)                                         *)
(***************************************************************************)
\* { type: 'success', data, total? }
Success(data, total) ==
    IF total.t = "undef"
    THEN JObj(<< <<<<"t","y","p","e">>, JStr(<<"s","u","c","c","e","s","s">>)>>, <<<<"d","a","t","a">>, data>> >>)
    ELSE JObj(<< <<<<"t","y","p","e">>, JStr(<<"s","u","c","c","e","s","s">>)>>, <<<<"d","a","t","a">>, data>>,
                 <<<<"t","o","t","a","l">>, total>> >>)

\* { type: 'error', error }
Failure(error) ==
    JObj(<< <<<<"t","y","p","e">>, JStr(<<"e","r","r","o","r">>)>>, <<<<"e","r","r","o","r">>, error>> >>)

IsSuccess(result) == Get(result, <<"t","y","p","e">>) = JStr(<<"s","u","c","c","e","s","s">>)
IsFailure(result) == Get(result, <<"t","y","p","e">>) = JStr(<<"e","r","r","o","r">>)

\* The state of a tool's logic between two awaits: the calls it has issued
\* (all of them, in order of issue), its local variables, and the outcome
\* of its promise once it has settled.
Waiting(calls, locals) ==
    [settled |-> FALSE, outcome |-> Thrown(ThrownUndefined),
     calls |-> calls, locals |-> locals]
Settled(outcome, calls) ==
    [settled |-> TRUE, outcome |-> outcome, calls |-> calls, locals |-> Undefined]

(***************************************************************************)
(* kibana_search (tools/kibanaSearch)                                      *)
(***************************************************************************)
\* A classification that does not look at the query key itself.
classifyQuery_boolOnly(body) ==
    IF Truthy(Get(Get(body, <<"q","u","e","r","y">>), <<"b","o","o","l">>)) THEN "has_bool"
    ELSE "no_query"

classifyQuery(body) ==
    IF Truthy(Get(Get(body, <<"q","u","e","r","y">>), <<"b","o","o","l">>)) THEN "has_bool"
    ELSE IF Truthy(Get(body, <<"q","u","e","r","y">>)) THEN "has_query"
    ELSE "no_query"

\* A range filter with its two ends exchanged.
rangeFilter_swapped(time_range) ==
    JObj(<< <<<<"r","a","n","g","e">>,
              JObj(<< <<<<"@","t","i","m","e","s","t","a","m","p">>,
                        JObj(<< <<<<"g","t","e">>, JStr(<<"n","o","w">>)>>,
                                <<<<"l","t","e">>, time_range>> >>)>> >>)>> >>)

rangeFilter(time_range) ==
    JObj(<< <<<<"r","a","n","g","e">>,
              JObj(<< <<<<"@","t","i","m","e","s","t","a","m","p">>,
                        JObj(<< <<<<"g","t","e">>, time_range>>,
                                <<<<"l","t","e">>, JStr(<<"n","o","w">>)>> >>)>> >>)>> >>)

\* A merge that forgets the filters the clause already had.
existingFilters_none(bool) == <<>>

\* [...(Array.isArray(bool.filter) ? bool.filter : bool.filter ? [bool.filter] : [])]
existingFilters(bool) ==
    IF Get(bool, <<"f","i","l","t","e","r">>).t = "arr" THEN Get(bool, <<"f","i","l","t","e","r">>).v
    ELSE IF Truthy(Get(bool, <<"f","i","l","t","e","r">>)) THEN <<Get(bool, <<"f","i","l","t","e","r">>)>>
    ELSE <<>>

\* The match over classifyQuery(searchBody) that injects the range filter.
mergeTimeRange(body, time_range) ==
    CASE classifyQuery(body) = "has_bool" ->
             LET bool == Get(Get(body, <<"q","u","e","r","y">>), <<"b","o","o","l">>)
             IN  Put(body, <<"q","u","e","r","y">>,
                     JObj(<< <<<<"b","o","o","l">>,
                               Put(bool, <<"f","i","l","t","e","r">>,
                                   JArr(Append(existingFilters(bool),
                                               rangeFilter(time_range))))>> >>))
      [] classifyQuery(body) = "has_query" ->
             Put(body, <<"q","u","e","r","y">>,
                 JObj(<< <<<<"b","o","o","l">>,
                           JObj(<< <<<<"m","u","s","t">>, JArr(<<Get(body, <<"q","u","e","r","y">>)>>)>>,
                                   <<<<"f","i","l","t","e","r">>,
                                     JArr(<<rangeFilter(time_range)>>)>> >>)>> >>))
      [] OTHER ->
             Put(body, <<"q","u","e","r","y">>,
                 JObj(<< <<<<"b","o","o","l">>,
                           JObj(<< <<<<"f","i","l","t","e","r">>,
                                     JArr(<<rangeFilter(time_range)>>)>> >>)>> >>))

\* size ?? 10
sizeOrDefault(size) == IF size.t \in {"undef", "null"} THEN 10 ELSE size.v

\* kibana_search up to its await of esClient.search.
kibanaSearchStart(config, input) ==
    LET index == Get(input, <<"i","n","d","e","x">>).v
        query == Get(input, <<"q","u","e","r","y">>)
        time_range == Get(input, <<"t","i","m","e","_","r","a","n","g","e">>)
        searchBody == IF Truthy(time_range) THEN mergeTimeRange(query, time_range)
                      ELSE query
    IN  IF ~validateIndexName(index).ok
        THEN Settled(validateIndexName(index), <<>>)
        ELSE IF ~validateReadOnlyQuery(query).ok
        THEN Settled(validateReadOnlyQuery(query), <<>>)
        ELSE Waiting(<<search(config, index, searchBody,
                              sizeOrDefault(Get(input, <<"s","i","z","e">>)))>>, Undefined)

\* data.hits.hits.map((hit) => hit._source)
sources(hits) == JArr([i \in DOMAIN hits.v |-> Get(hits.v[i], <<"_","s","o","u","r","c","e">>)])

\* data.hits.total?.value ?? data.hits.total
totalOf(hits) ==
    IF Get(Get(hits, <<"t","o","t","a","l">>), <<"v","a","l","u","e">>).t \in {"undef", "null"}
    THEN Get(hits, <<"t","o","t","a","l">>)
    ELSE Get(Get(hits, <<"t","o","t","a","l">>), <<"v","a","l","u","e">>)

\* kibana_search after esClient.search has settled.
kibanaSearchResume(calls) ==
    IF ~Await(calls[1]).ok THEN Settled(Await(calls[1]), calls)
    ELSE LET data == calls[1].value
             result == Success(sources(Get(Get(data, <<"h","i","t","s">>), <<"h","i","t","s">>)),
                               totalOf(Get(data, <<"h","i","t","s">>)))
         IN  Settled(Returned(IF Truthy(Get(data, <<"a","g","g","r","e","g","a","t","i","o","n","s">>))
                              THEN Put(result, <<"a","g","g","r","e","g","a","t","i","o","n","s">>,
                                       Get(data, <<"a","g","g","r","e","g","a","t","i","o","n","s">>))
                              ELSE result),
                     calls)

(***************************************************************************)
(* Mapping flattener (mappingUtils) and the index tools                    *)
(***************************************************************************)
\* One { field, type } entry.
FieldMapping(field, type) == JObj(<< <<<<"f","i","e","l","d">>, field>>, <<<<"t","y","p","e">>, type>> >>)

\* flattenProperties(properties, prefix, result) as the list of entries it
\* pushes, in push order.
RECURSIVE flattenProperties(_, _)
RECURSIVE flattenEntries(_, _)
flattenEntries(kvs, prefix) ==
    IF kvs = <<>> THEN <<>>
    ELSE LET name == Head(kvs)[1]
             mapping == Head(kvs)[2]
             fieldPath == IF prefix # <<>> THEN prefix \o <<".">> \o name ELSE name
         IN  (IF Truthy(Get(mapping, <<"t","y","p","e">>))
              THEN <<FieldMapping(JStr(fieldPath), Get(mapping, <<"t","y","p","e">>))>>
              ELSE <<>>)
             \o (IF Truthy(Get(mapping, <<"p","r","o","p","e","r","t","i","e","s">>))
                 THEN flattenProperties(Get(mapping, <<"p","r","o","p","e","r","t","i","e","s">>), fieldPath)
                 ELSE <<>>)
             \o (IF Truthy(Get(mapping, <<"f","i","e","l","d","s">>))
                 THEN flattenProperties(Get(mapping, <<"f","i","e","l","d","s">>), fieldPath)
                 ELSE <<>>)
             \o flattenEntries(Tail(kvs), prefix)
flattenProperties(properties, prefix) == flattenEntries(properties.v, prefix)

\* The loop over Object.keys(mappingData) of get_index_mappings and
\* discover_cluster.
RECURSIVE fieldsOfMapping(_)
fieldsOfMapping(kvs) ==
    IF kvs = <<>> THEN <<>>
    ELSE LET properties == Get(Get(Head(kvs)[2], <<"m","a","p","p","i","n","g","s">>), <<"p","r","o","p","e","r","t","i","e","s">>)
         IN  (IF Truthy(properties) THEN flattenProperties(properties, <<>>)
              ELSE <<>>)
             \o fieldsOfMapping(Tail(kvs))

\* get_index_mappings up to its await of esClient.getMapping.
getIndexMappingsStart(config, input) ==
    LET index == Get(input, <<"i","n","d","e","x">>).v
    IN  IF ~validateIndexName(index).ok
        THEN Settled(validateIndexName(index), <<>>)
        ELSE Waiting(<<getMapping(config, index)>>, Undefined)

\* get_index_mappings after esClient.getMapping has settled.
getIndexMappingsResume(input, calls) ==
    IF ~Await(calls[1]).ok THEN Settled(Await(calls[1]), calls)
    ELSE Settled(Returned(Success(
                     JObj(<< <<<<"i","n","d","e","x">>, Get(input, <<"i","n","d","e","x">>)>>,
                             <<<<"f","i","e","l","d","s">>,
                               JArr(fieldsOfMapping(calls[1].value.v))>> >>),
                     Undefined)),
                 calls)

\* pattern ?? '*'
patternOrDefault(pattern) ==
    IF pattern.t \in {"undef", "null"} THEN <<"*">> ELSE pattern.v

\* One row of _cat/indices as the tools keep it.
IndexInfo(idx) ==
    JObj(<< <<<<"i","n","d","e","x">>, Get(idx, <<"i","n","d","e","x">>)>>,
            <<<<"h","e","a","l","t","h">>, Get(idx, <<"h","e","a","l","t","h">>)>>,
            <<<<"s","t","a","t","u","s">>, Get(idx, <<"s","t","a","t","u","s">>)>>,
            <<<<"d","o","c","_","c","o","u","n","t">>, Get(idx, <<"d","o","c","s",".","c","o","u","n","t">>)>>,
            <<<<"s","t","o","r","e","_","s","i","z","e">>, Get(idx, <<"s","t","o","r","e",".","s","i","z","e">>)>> >>)

indexName(info) == Get(info, <<"i","n","d","e","x">>).v

\* !idx.index.startsWith('.')
notHidden(info) == ~(Len(indexName(info)) >= 1 /\ indexName(info)[1] = ".")

\* The two filters of list_indices and discover_cluster.
visibleIndices(config, include_hidden, rawIndices) ==
    LET mapped == [i \in DOMAIN rawIndices |-> IndexInfo(rawIndices[i])]
        shown == IF ~include_hidden THEN SelectSeq(mapped, notHidden) ELSE mapped
        allowedInfo(info) == isAllowed(config.allowedIndexPatterns, indexName(info))
    IN  IF Len(config.allowedIndexPatterns) > 0 THEN SelectSeq(shown, allowedInfo)
        ELSE shown

\* list_indices up to its await of esClient.catIndices.  (The pattern the
\* tool passes on is the input's own, undefined taking catIndices' default.)
listIndicesStart(config, input) ==
    LET pattern == patternOrDefault(Get(input, <<"p","a","t","t","e","r","n">>))
    IN  IF ~validateIndexName(pattern).ok
        THEN Settled(validateIndexName(pattern), <<>>)
        ELSE Waiting(<<catIndices(config, pattern)>>, Undefined)

\* list_indices after esClient.catIndices has settled.
listIndicesResume(config, input, calls) ==
    IF ~Await(calls[1]).ok THEN Settled(Await(calls[1]), calls)
    ELSE LET indices == visibleIndices(config,
                                       Truthy(Get(input, <<"i","n","c","l","u","d","e","_","h","i","d","d","e","n">>)),
                                       calls[1].value.v)
         IN  Settled(Returned(Success(JArr(indices), JNum(Len(indices)))), calls)

(***************************************************************************)
(* discover_cluster (tools/discoverCluster)                                *)
(***************************************************************************)
\* The run of decimal digits a text starts with.
RECURSIVE leadingDigits(_)
leadingDigits(text) ==
    IF text # <<>> /\ IsDigit(Head(text))
    THEN <<Head(text)>> \o leadingDigits(Tail(text))
    ELSE <<>>

\* parseInt(doc_count, 10) || 0
docCount(info) ==
    LET doc_count == Get(info, <<"d","o","c","_","c","o","u","n","t">>)
    IN  IF doc_count.t = "str" THEN parseInt(leadingDigits(doc_count.v)) ELSE 0

\* indices.sort((a, b) => countB - countA): a stable sort, largest first.
RECURSIVE insertByCount(_, _)
insertByCount(sorted, info) ==
    IF sorted = <<>> THEN <<info>>
    ELSE IF docCount(Head(sorted)) >= docCount(info)
         THEN <<Head(sorted)>> \o insertByCount(Tail(sorted), info)
         ELSE <<info>> \o sorted

RECURSIVE sortByCount(_, _)
sortByCount(sorted, rest) ==
    IF rest = <<>> THEN sorted
    ELSE sortByCount(insertByCount(sorted, Head(rest)), Tail(rest))

\* indices.slice(0, max_indices)
sliceTo(xs, n) ==
    SubSeq(xs, 1, IF n < 0 THEN Max(Len(xs) + n, 0) ELSE Min(n, Len(xs)))

\* deduplicateFields: the first type seen for each field path, in order.
RECURSIVE deduplicateFields(_, _)
deduplicateFields(fields, seen) ==
    IF fields = <<>> THEN <<>>
    ELSE IF Get(Head(fields), <<"f","i","e","l","d">>) \in seen
         THEN deduplicateFields(Tail(fields), seen)
         ELSE <<Head(fields)>>
              \o deduplicateFields(Tail(fields),
                                   seen \cup {Get(Head(fields), <<"f","i","e","l","d">>)})

\* discover_cluster up to its await of esClient.catIndices.
discoverClusterStart(config, input) ==
    LET pattern == patternOrDefault(Get(input, <<"p","a","t","t","e","r","n">>))
    IN  IF ~validateIndexName(pattern).ok
        THEN Settled(validateIndexName(pattern), <<>>)
        ELSE Waiting(<<catIndices(config, pattern)>>, Undefined)

\* discover_cluster after catIndices has settled: steps 2 to 5 and the
\* start of every mapping fetch of step 6.
discoverClusterFetch(config, input, calls) ==
    IF ~Await(calls[1]).ok THEN Settled(Await(calls[1]), calls)
    ELSE LET visible == visibleIndices(config,
                                       Truthy(Get(input, <<"i","n","c","l","u","d","e","_","h","i","d","d","e","n">>)),
                                       calls[1].value.v)
             indices == sliceTo(sortByCount(<<>>, visible),
                                Get(input, <<"m","a","x","_","i","n","d","i","c","e","s">>).v)
         IN  Waiting(calls \o [i \in DOMAIN indices |->
                                   getMapping(config, indexName(indices[i]))],
                     [totalIndices |-> Len(visible), indices |-> indices])

\* One element of discoveredIndices: { ...idx, fields }.
discovered(idx, call) ==
    Put(idx, <<"f","i","e","l","d","s">>,
        IF call.st = "returned"
        THEN JArr(deduplicateFields(fieldsOfMapping(call.value.v), {}))
        ELSE JArr(<<>>))

\* discover_cluster after every mapping fetch has settled.
discoverClusterFinish(calls, locals) ==
    LET discoveredIndices ==
            [i \in DOMAIN locals.indices |->
                 discovered(locals.indices[i], calls[i + 1])]
    IN  Settled(Returned(Success(
                    JObj(<< <<<<"c","l","u","s","t","e","r","_","s","u","m","m","a","r","y">>,
                              JObj(<< <<<<"t","o","t","a","l","_","i","n","d","i","c","e","s">>, JNum(locals.totalIndices)>>,
                                      <<<<"d","i","s","c","o","v","e","r","e","d">>,
                                        JNum(Len(discoveredIndices))>> >>)>>,
                            <<<<"i","n","d","i","c","e","s">>, JArr(discoveredIndices)>> >>),
                    Undefined)),
                calls)

(***************************************************************************)
(* check_cluster_health (tools/checkClusterHealth) and clusterHealth       *)
(***************************************************************************)
\* esClient.clusterHealth(level)
clusterHealth(config, level) ==
    withRetry(config, "clusterHealth", level,
              [method |-> "GET",
               path |-> <<"/","_","c","l","u","s","t","e","r","/","h","e","a","l","t","h","?","l","e","v","e","l","=">> \o level,
               body |-> Undefined])

\* check_cluster_health up to its await of esClient.clusterHealth.
checkClusterHealthStart(config, input) ==
    Waiting(<<clusterHealth(config, Get(input, <<"l","e","v","e","l">>).v)>>, Undefined)

\* The keys summary copies from the raw response, in order.
summaryKeys ==
    << <<"c","l","u","s","t","e","r","_","n","a","m","e">>, <<"s","t","a","t","u","s">>, <<"n","u","m","b","e","r","_","o","f","_","n","o","d","e","s">>, <<"n","u","m","b","e","r","_","o","f","_","d","a","t","a","_","n","o","d","e","s">>,
       <<"a","c","t","i","v","e","_","p","r","i","m","a","r","y","_","s","h","a","r","d","s">>, <<"a","c","t","i","v","e","_","s","h","a","r","d","s">>, <<"u","n","a","s","s","i","g","n","e","d","_","s","h","a","r","d","s">>, <<"t","i","m","e","d","_","o","u","t">> >>

\* check_cluster_health after esClient.clusterHealth has settled: the
\* summary, with raw.indices spread in when it is truthy.
checkClusterHealthResume(input, calls) ==
    IF ~Await(calls[1]).ok THEN Settled(Await(calls[1]), calls)
    ELSE LET raw == calls[1].value
             copied == JObj([i \in DOMAIN summaryKeys |->
                                <<summaryKeys[i], Get(raw, summaryKeys[i])>>])
             summary == Put(copied, <<"l","e","v","e","l">>, Get(input, <<"l","e","v","e","l">>))
         IN  Settled(Returned(Success(
                         IF Truthy(Get(raw, <<"i","n","d","i","c","e","s">>))
                         THEN Put(summary, <<"i","n","d","i","c","e","s">>, Get(raw, <<"i","n","d","i","c","e","s">>))
                         ELSE summary,
                         Undefined)),
                     calls)

(***************************************************************************)
(* get_alert_status (tools/getAlertStatus) and esClient.findAlertingRules  *)
(***************************************************************************)
\* One character of URLSearchParams.toString(): letters, digits and *-._
\* stay, a space becomes +, anything else is percent-encoded.
urlEncodeChar(c) ==
    IF IsUpper(c) \/ IsLower(c) \/ IsDigit(c) \/ c \in {"*", "-", ".", "_"} THEN <<c>>
    ELSE CASE c = " "  -> <<"+">>
           [] c = "\"" -> <<"%","2","2">>
           [] c = ":"  -> <<"%","3","A">>
           [] c = "/"  -> <<"%","2","F">>
           [] c = "@"  -> <<"%","4","0">>
           [] c = "+"  -> <<"%","2","B">>
           [] c = "&"  -> <<"%","2","6">>
           [] c = "="  -> <<"%","3","D">>
           [] OTHER    -> <<"%","3","F">>

urlEncode(text) == Flatten([i \in DOMAIN text |-> urlEncodeChar(text[i])])

\* String(v) of a parameter value.
String(v) == IF v.t = "num" THEN NatToText(v.v) ELSE v.v

\* new URLSearchParams(Object.entries(params).map(...)).toString()
queryString(params) ==
    join([i \in DOMAIN params.v |->
              urlEncode(params.v[i][1]) \o <<"=">> \o urlEncode(String(params.v[i][2]))],
         <<"&">>)

\* esClient.findAlertingRules(params)
findAlertingRules(config, params) ==
    withRetry(config, "findAlertingRules", queryString(params),
              [method |-> "GET",
               path |-> <<"/","a","p","i","/","a","l","e","r","t","i","n","g","/","r","u","l","e","s","/","_","f","i","n","d">>
                        \o (IF queryString(params) # <<>>
                            THEN <<"?">> \o queryString(params) ELSE <<>>),
               body |-> Undefined])

\* The KQL parts pushed for rule_type and severity.
filterParts(severity, rule_type) ==
    (IF Truthy(rule_type)
     THEN <<<<"r","u","l","e","_","t","y","p","e","_","i","d",":"," ","\"">> \o rule_type.v \o <<"\"">> >> ELSE <<>>)
    \o (IF Truthy(severity)
        THEN <<<<"t","a","g","s",":"," ","\"">> \o severity.v \o <<"\"">> >> ELSE <<>>)

\* get_alert_status up to its await of esClient.findAlertingRules.
getAlertStatusStart(config, input) ==
    LET params == JObj(<< <<<<"p","e","r","_","p","a","g","e">>, Get(input, <<"m","a","x","_","r","e","s","u","l","t","s">>)>>,
                          <<<<"s","o","r","t","_","f","i","e","l","d">>, JStr(<<"n","a","m","e">>)>>,
                          <<<<"s","o","r","t","_","o","r","d","e","r">>, JStr(<<"a","s","c">>)>> >>)
        parts == filterParts(Get(input, <<"s","e","v","e","r","i","t","y">>), Get(input, <<"r","u","l","e","_","t","y","p","e">>))
    IN  Waiting(<<findAlertingRules(config,
                     IF Len(parts) > 0
                     THEN Put(params, <<"f","i","l","t","e","r">>, JStr(join(parts, <<" ","A","N","D"," ">>)))
                     ELSE params)>>,
                Undefined)

\* x ?? fallback
nullish(x, fallback) == IF x.t \in {"undef", "null"} THEN fallback ELSE x

\* The normalized shape of one Kibana rule.
alertRule(rule) ==
    JObj(<< <<<<"i","d">>, Get(rule, <<"i","d">>)>>,
            <<<<"n","a","m","e">>, Get(rule, <<"n","a","m","e">>)>>,
            <<<<"r","u","l","e","_","t","y","p","e","_","i","d">>, Get(rule, <<"r","u","l","e","_","t","y","p","e","_","i","d">>)>>,
            <<<<"e","n","a","b","l","e","d">>, Get(rule, <<"e","n","a","b","l","e","d">>)>>,
            <<<<"t","a","g","s">>, nullish(Get(rule, <<"t","a","g","s">>), JArr(<<>>))>>,
            <<<<"s","c","h","e","d","u","l","e">>, nullish(Get(rule, <<"s","c","h","e","d","u","l","e">>), JObj(<<>>))>>,
            <<<<"l","a","s","t","_","e","x","e","c","u","t","i","o","n","_","s","t","a","t","u","s">>,
              nullish(Get(Get(rule, <<"e","x","e","c","u","t","i","o","n","_","s","t","a","t","u","s">>), <<"s","t","a","t","u","s">>), JStr(<<"u","n","k","n","o","w","n">>))>>,
            <<<<"l","a","s","t","_","e","x","e","c","u","t","i","o","n","_","d","a","t","e">>,
              Get(Get(rule, <<"e","x","e","c","u","t","i","o","n","_","s","t","a","t","u","s">>), <<"l","a","s","t","_","e","x","e","c","u","t","i","o","n","_","d","a","t","e">>)>>,
            <<<<"l","a","s","t","_","e","x","e","c","u","t","i","o","n","_","s","t","a","t","u","s","_","r","e","a","s","o","n">>,
              Get(Get(Get(rule, <<"e","x","e","c","u","t","i","o","n","_","s","t","a","t","u","s">>), <<"e","r","r","o","r">>), <<"r","e","a","s","o","n">>)>> >>)

\* The rules of the raw response, normalized and filtered by status.
alertRules(raw, status) ==
    LET found == nullish(Get(raw, <<"d","a","t","a">>), JArr(<<>>)).v
        rules == [i \in DOMAIN found |-> alertRule(found[i])]
        wanted(r) == Get(r, <<"l","a","s","t","_","e","x","e","c","u","t","i","o","n","_","s","t","a","t","u","s">>) = status
    IN  IF Truthy(status) THEN SelectSeq(rules, wanted) ELSE rules

AlertingUnavailable ==
    <<"K","i","b","a","n","a"," ","A","l","e","r","t","i","n","g"," ","i","s"," ","n","o","t"," ","a","v","a","i","l","a","b","l","e","."," ","E","n","s","u","r","e"," ","t","h","e"," ","K","i","b","a","n","a"," ","a","l","e","r","t","i","n","g"," ","p","l","u","g","i","n"," ","i","s"," ","e","n","a","b","l","e","d"," ","a","n","d"," ","t","h","e"," ","A","P","I"," ","k","e","y"," ","h","a","s"," ","t","h","e"," ","r","e","q","u","i","r","e","d"," ","p","r","i","v","i","l","e","g","e","s",".">>

\* A catch block that only knows the 404 of a missing plugin.
getAlertStatusResume_only404(input, calls) ==
    IF ~Await(calls[1]).ok
    THEN IF calls[1].lastError.kind = "undefined"
         THEN Settled(Thrown(Error(<<"C","a","n","n","o","t"," ","r","e","a","d"," ","p","r","o","p","e","r","t","i","e","s"," ","o","f"," ","u","n","d","e","f","i","n","e","d"," ","(","r","e","a","d","i","n","g"," ","'","r","e","s","p","o","n","s","e","'",")">>)), calls)
         ELSE IF calls[1].lastError.response.status \in {404}
         THEN Settled(Returned(Failure(JStr(AlertingUnavailable))), calls)
         ELSE Settled(Await(calls[1]), calls)
    ELSE LET rules == alertRules(calls[1].value, Get(input, <<"s","t","a","t","u","s">>))
         IN  Settled(Returned(Success(
                         JObj(<< <<<<"t","o","t","a","l">>,
                                   nullish(Get(calls[1].value, <<"t","o","t","a","l">>), JNum(Len(rules)))>>,
                                 <<<<"r","e","t","u","r","n","e","d">>, JNum(Len(rules))>>,
                                 <<<<"r","u","l","e","s">>, JArr(rules)>> >>),
                         Undefined)),
                     calls)

\* get_alert_status after esClient.findAlertingRules has settled: the catch
\* block reads error.response of the thrown value, then the normalization.
getAlertStatusResume(input, calls) ==
    IF ~Await(calls[1]).ok
    THEN IF calls[1].lastError.kind = "undefined"
         THEN Settled(Thrown(Error(<<"C","a","n","n","o","t"," ","r","e","a","d"," ","p","r","o","p","e","r","t","i","e","s"," ","o","f"," ","u","n","d","e","f","i","n","e","d"," ","(","r","e","a","d","i","n","g"," ","'","r","e","s","p","o","n","s","e","'",")">>)), calls)
         ELSE IF calls[1].lastError.response.status \in {404, 403}
         THEN Settled(Returned(Failure(JStr(AlertingUnavailable))), calls)
         ELSE Settled(Await(calls[1]), calls)
    ELSE LET rules == alertRules(calls[1].value, Get(input, <<"s","t","a","t","u","s">>))
         IN  Settled(Returned(Success(
                         JObj(<< <<<<"t","o","t","a","l">>,
                                   nullish(Get(calls[1].value, <<"t","o","t","a","l">>), JNum(Len(rules)))>>,
                                 <<<<"r","e","t","u","r","n","e","d">>, JNum(Len(rules))>>,
                                 <<<<"r","u","l","e","s">>, JArr(rules)>> >>),
                         Undefined)),
                     calls)

(***************************************************************************)
(* Orchestrator (toolWrapper.createSecureTool) and audit logger            *)
(***************************************************************************)
\* error.response?.data?.error?.reason || error.response?.data?.message
\*   || error.message || 'Unknown error'
errorMessage(error) ==
    LET data == error.response.data
    IN  IF Truthy(Get(Get(data, <<"e","r","r","o","r">>), <<"r","e","a","s","o","n">>))
        THEN Get(Get(data, <<"e","r","r","o","r">>), <<"r","e","a","s","o","n">>)
        ELSE IF Truthy(Get(data, <<"m","e","s","s","a","g","e">>)) THEN Get(data, <<"m","e","s","s","a","g","e">>)
        ELSE IF error.message # <<>> THEN JStr(error.message)
        ELSE JStr(<<"U","n","k","n","o","w","n"," ","e","r","r","o","r">>)

\* The try/catch around options.execute.  Reading a property of a thrown
\* undefined raises a TypeError out of the catch block.
normalize(outcome) ==
    IF outcome.ok THEN Returned(outcome.value)
    ELSE IF outcome.error.kind = "undefined"
         THEN Thrown(Error(<<"C","a","n","n","o","t"," ","r","e","a","d"," ","p","r","o","p","e","r","t","i","e","s"," ","o","f"," ","u","n","d","e","f","i","n","e","d"," ","(","r","e","a","d","i","n","g"," ","'","r","e","s","p","o","n","s","e","'",")">>))
         ELSE Returned(Failure(errorMessage(outcome.error)))

\* A redaction step that ignores the PII_REDACTION_ENABLED switch.
redactionStep_always(config, result) ==
    IF IsSuccess(result)
    THEN LET redaction == redactPII(result)
         IN  [finalResult |-> redaction.redactedData,
              redactionCount |-> redaction.redactionCount,
              redactedTypes |-> redaction.redactedTypes]
    ELSE [finalResult |-> result, redactionCount |-> 0, redactedTypes |-> <<>>]

\* A redaction step that counts but hands on the original.
redactionStep_original(config, result) ==
    IF IsSuccess(result) /\ config.piiRedactionEnabled
    THEN [finalResult |-> result,
          redactionCount |-> redactPII(result).redactionCount,
          redactedTypes |-> redactPII(result).redactedTypes]
    ELSE [finalResult |-> result, redactionCount |-> 0, redactedTypes |-> <<>>]

\* The match(result) of the redaction step.
redactionStep(config, result) ==
    IF IsSuccess(result) /\ config.piiRedactionEnabled
    THEN LET redaction == redactPII(result)
         IN  [finalResult |-> redaction.redactedData,
              redactionCount |-> redaction.redactionCount,
              redactedTypes |-> redaction.redactedTypes]
    ELSE [finalResult |-> result, redactionCount |-> 0, redactedTypes |-> <<>>]

\* The entry handed to auditLogger.log (wall-clock fields left out).
auditEntry(toolId, input, finalResult, redactionCount, redactedTypes) ==
    [tool_called |-> toolId,
     input_parameters |-> stringify(input),
     output_size_bytes |-> Len(stringify(finalResult)),
     redaction_count |-> redactionCount,
     redacted_types |-> redactedTypes,
     status |-> IF IsSuccess(finalResult) THEN "success" ELSE "error",
     error_message |-> IF IsSuccess(finalResult) THEN Undefined
                       ELSE Get(finalResult, <<"e","r","r","o","r">>)]

MAX_INPUT_LOG_LENGTH == 500

\* AuditLogger.log: the lines on stderr after the call.
log(enabled, stderr, entry) ==
    IF ~enabled THEN stderr
    ELSE Append(stderr,
                [entry EXCEPT !.input_parameters =
                    IF Len(@) > MAX_INPUT_LOG_LENGTH
                    THEN SubSeq(@, 1, MAX_INPUT_LOG_LENGTH) \o <<".",".",".","[","t","r","u","n","c","a","t","e","d","]">>
                    ELSE @])

(***************************************************************************)
(* Environment: configurations, invocations and backend responses          *)
(***************************************************************************)
MaxRetryAttempts == 3

Environments ==
    [ ALLOWED_INDEX_PATTERNS : {<<>>, <<"l","o","g","s","-","*",","," ","t","x","-","*">>},
      MAX_SEARCH_SIZE        : {<<"3">>},
      RETRY_ATTEMPTS         : {<<>>} \cup {NatToText(n) : n \in 0..MaxRetryAttempts},
      RETRY_DELAY_MS         : {<<>>},
      AUDIT_ENABLED          : {<<>>, <<"f","a","l","s","e">>},
      PII_REDACTION_ENABLED  : {<<>>, <<"f","a","l","s","e">>} ]

MatchAll == JObj(<< <<<<"q","u","e","r","y">>, JObj(<< <<<<"m","a","t","c","h","_","a","l","l">>, JObj(<<>>)>> >>)>> >>)

BoolQuery ==
    JObj(<< <<<<"q","u","e","r","y">>,
              JObj(<< <<<<"b","o","o","l">>,
                        JObj(<< <<<<"f","i","l","t","e","r">>,
                                  JObj(<< <<<<"t","e","r","m">>,
                                            JObj(<< <<<<"s","t","a","t","u","s">>,
                                                      JStr(<<"f","a","i","l","e","d">>)>> >>)>> >>)>> >>)>> >>)>> >>)

\* A scripting clause under an upper-case key.
ScriptQuery ==
    JObj(<< <<<<"q","u","e","r","y">>,
              JObj(<< <<<<"S","C","R","I","P","T">>,
                        JObj(<< <<<<"s","o","u","r","c","e">>, JStr(<<"d","o","c",".","c","o","u","n","t">>)>> >>)>> >>)>> >>)

\* A text value that holds two blocked words, the later-listed one first.
NoteQuery ==
    JObj(<< <<<<"q","u","e","r","y">>,
              JObj(<< <<<<"m","a","t","c","h">>,
                        JObj(<< <<<<"n","o","t","e">>,
                                  JStr(<<"c","t","x",".","_","s","o","u","r","c","e"," ","b","e","f","o","r","e"," ","_","D","e","l","e","t","e">>)>> >>)>> >>)>> >>)

SearchInput(index, query, size, time_range) ==
    JObj(<< <<<<"i","n","d","e","x">>, JStr(index)>>, <<<<"q","u","e","r","y">>, query>>,
            <<<<"s","i","z","e">>, JNum(size)>>, <<<<"t","i","m","e","_","r","a","n","g","e">>, time_range>> >>)

IndexInput(index) == JObj(<< <<<<"i","n","d","e","x">>, JStr(index)>> >>)

ListInput(pattern, include_hidden) ==
    JObj(<< <<<<"p","a","t","t","e","r","n">>, pattern>>,
            <<<<"i","n","c","l","u","d","e","_","h","i","d","d","e","n">>, JBool(include_hidden)>> >>)

HealthInput(level) == JObj(<< <<<<"l","e","v","e","l">>, JStr(level)>> >>)

DiscoverInput(pattern, include_hidden, max_indices) ==
    JObj(<< <<<<"p","a","t","t","e","r","n">>, pattern>>,
            <<<<"i","n","c","l","u","d","e","_","h","i","d","d","e","n">>, JBool(include_hidden)>>,
            <<<<"m","a","x","_","i","n","d","i","c","e","s">>, JNum(max_indices)>> >>)

AlertInput(severity, rule_type, status, max_results) ==
    JObj(<< <<<<"s","e","v","e","r","i","t","y">>, severity>>, <<<<"r","u","l","e","_","t","y","p","e">>, rule_type>>,
            <<<<"s","t","a","t","u","s">>, status>>, <<<<"m","a","x","_","r","e","s","u","l","t","s">>, JNum(max_results)>> >>)

\* A page of alerting rules as Kibana's _find returns it.
RulesData ==
    JObj(<< <<<<"p","a","g","e">>, JNum(1)>>, <<<<"t","o","t","a","l">>, JNum(7)>>,
            <<<<"d","a","t","a">>,
              JArr(<< JObj(<< <<<<"i","d">>, JStr(<<"r","1">>)>>, <<<<"n","a","m","e">>, JStr(<<"c","p","u">>)>>,
                              <<<<"r","u","l","e","_","t","y","p","e","_","i","d">>, JStr(<<".","e","s","-","q","u","e","r","y">>)>>,
                              <<<<"e","n","a","b","l","e","d">>, JBool(TRUE)>>,
                              <<<<"t","a","g","s">>, JArr(<<JStr(<<"c","r","i","t","i","c","a","l">>)>>)>>,
                              <<<<"e","x","e","c","u","t","i","o","n","_","s","t","a","t","u","s">>,
                                JObj(<< <<<<"s","t","a","t","u","s">>, JStr(<<"e","r","r","o","r">>)>>,
                                        <<<<"e","r","r","o","r">>,
                                          JObj(<< <<<<"r","e","a","s","o","n">>,
                                                    JStr(<<"m","a","i","l"," ","t","o"," ","o","p","s","@","b","a","n","k",".","c","o","m"," ","f","a","i","l","e","d">>)>> >>)>> >>)>> >>),
                      JObj(<< <<<<"i","d">>, JStr(<<"r","2">>)>>, <<<<"n","a","m","e">>, JStr(<<"d","i","s","k">>)>>,
                              <<<<"e","n","a","b","l","e","d">>, JBool(FALSE)>> >>) >>)>> >>)

Invocations ==
    { <<"kibana_search", SearchInput(<<"l","o","g","s","-","a">>, MatchAll, 5, JStr(<<"n","o","w","-","2","4","h">>))>>,
      <<"kibana_search", SearchInput(<<"l","o","g","s","-","a">>, BoolQuery, 2, Undefined)>>,
      <<"kibana_search", SearchInput(<<"s","e","c","r","e","t">>, JObj(<<>>), 10, JStr(<<"n","o","w","-","7","d">>))>>,
      <<"kibana_search", SearchInput(<<".",".","/","e","t","c","/","p","a","s","s","w","d">>, MatchAll, 10, Undefined)>>,
      <<"kibana_search", SearchInput(<<>>, MatchAll, 10, Undefined)>>,
      <<"kibana_search", SearchInput(<<"l","o","g","s","-","a">>, ScriptQuery, 10, Undefined)>>,
      <<"kibana_search", SearchInput(<<"l","o","g","s","-","a">>, NoteQuery, 10, Undefined)>>,
      <<"get_index_mappings", IndexInput(<<"l","o","g","s","-","a">>)>>,
      <<"get_index_mappings", IndexInput(<<"s","e","c","r","e","t">>)>>,
      <<"get_index_mappings", IndexInput(<<"l","o","g","s","-","a",",","s","e","c","r","e","t">>)>>,
      <<"kibana_search", SearchInput(<<"l","o","g","s","-","a",",","s","e","c","r","e","t">>, MatchAll, 5, Undefined)>>,
      <<"get_index_mappings", IndexInput(<<"l","o","g","s","<","s","c","r","i","p","t",">">>)>>,
      <<"get_alert_status", AlertInput(Undefined, Undefined, Undefined, 20)>>,
      <<"get_alert_status", AlertInput(JStr(<<"c","r","i","t","i","c","a","l">>), JStr(<<".","e","s","-","q","u","e","r","y">>), JStr(<<"e","r","r","o","r">>), 5)>>,
      <<"list_indices", ListInput(Undefined, FALSE)>>,
      <<"list_indices", ListInput(JStr(<<"s","e","c","r","e","t","*">>), TRUE)>>,
      <<"list_indices", ListInput(JStr(<<"l","o","g","s",";","r","m"," ","-","r","f">>), FALSE)>>,
      <<"list_indices", ListInput(JStr(<<>>), FALSE)>>,
      <<"discover_cluster", DiscoverInput(JStr(<<"*">>), FALSE, 50)>>,
      <<"discover_cluster", DiscoverInput(JStr(<<"*">>), TRUE, 1)>>,
      <<"check_cluster_health", HealthInput(<<"c","l","u","s","t","e","r">>)>>,
      <<"check_cluster_health", HealthInput(<<"i","n","d","i","c","e","s">>)>>,
      <<"discover_cluster", DiscoverInput(JStr(<<"*">>), FALSE, -1)>>,
      <<"discover_cluster", DiscoverInput(JStr(<<".",".","/","e","t","c","/","p","a","s","s","w","d">>), FALSE, 50)>> }

Hit(customer, card, amount) ==
    JObj(<< <<<<"_","s","o","u","r","c","e">>,
              JObj(<< <<<<"c","u","s","t","o","m","e","r">>, JStr(customer)>>, <<<<"c","a","r","d">>, JStr(card)>>,
                      <<<<"a","m","o","u","n","t">>, JNum(amount)>> >>)>> >>)

\* Bodies a search may answer with.
SearchData ==
    { JObj(<< <<<<"h","i","t","s">>,
                JObj(<< <<<<"t","o","t","a","l">>, JObj(<< <<<<"v","a","l","u","e">>, JNum(1)>> >>)>>,
                        <<<<"h","i","t","s">>,
                          JArr(<<Hit(<<"j","o","h","n",".","d","o","e","@","b","a","n","k",".","c","o","m">>,
                                     <<"4","1","1","1"," ","1","1","1","1"," ","1","1","1","1"," ","1","1","1","1">>, 120)>>)>> >>)>> >>),
      JObj(<< <<<<"h","i","t","s">>,
                JObj(<< <<<<"t","o","t","a","l">>, JNum(0)>>, <<<<"h","i","t","s">>, JArr(<<>>)>> >>)>>,
              <<<<"a","g","g","r","e","g","a","t","i","o","n","s">>,
                JObj(<< <<<<"b","y","_","s","t","a","t","u","s">>,
                          JObj(<< <<<<"b","u","c","k","e","t","s">>, JArr(<<>>)>> >>)>> >>)>> >>) }

CatRow(index, count) ==
    JObj(<< <<<<"i","n","d","e","x">>, JStr(index)>>, <<<<"h","e","a","l","t","h">>, JStr(<<"g","r","e","e","n">>)>>,
            <<<<"s","t","a","t","u","s">>, JStr(<<"o","p","e","n">>)>>, <<<<"d","o","c","s",".","c","o","u","n","t">>, JStr(count)>>,
            <<<<"s","t","o","r","e",".","s","i","z","e">>, JStr(<<"1","k","b">>)>> >>)

\* The indices of the cluster, as _cat/indices lists them.
ClusterIndices ==
    << CatRow(<<".","k","i","b","a","n","a">>, <<"7">>), CatRow(<<"l","o","g","s","-","a">>, <<"5">>),
       CatRow(<<"s","e","c","r","e","t">>, <<"9">>) >>

\* The names of the cluster's indices an index expression resolves to: those
\* matching one of its comma-separated wildcard components.
Resolve(expression) ==
    LET parts == splitComma(expression, <<>>)
        named(row) == \E k \in DOMAIN parts :
                          globMatch(parts[k], Get(row, <<"i","n","d","e","x">>).v)
        rows == SelectSeq(ClusterIndices, named)
    IN  [i \in DOMAIN rows |-> Get(rows[i], <<"i","n","d","e","x">>).v]

\* The body of GET /_cluster/health?level=<level>: per-index health under
\* indices for every index of the cluster at the levels indices and shards.
HealthData(level) ==
    LET cluster ==
            JObj(<< <<<<"c","l","u","s","t","e","r","_","n","a","m","e">>, JStr(<<"b","a","n","k","-","p","r","o","d">>)>>, <<<<"s","t","a","t","u","s">>, JStr(<<"y","e","l","l","o","w">>)>>,
                    <<<<"t","i","m","e","d","_","o","u","t">>, JBool(FALSE)>>, <<<<"n","u","m","b","e","r","_","o","f","_","n","o","d","e","s">>, JNum(3)>>,
                    <<<<"n","u","m","b","e","r","_","o","f","_","d","a","t","a","_","n","o","d","e","s">>, JNum(2)>>, <<<<"a","c","t","i","v","e","_","p","r","i","m","a","r","y","_","s","h","a","r","d","s">>, JNum(3)>>,
                    <<<<"a","c","t","i","v","e","_","s","h","a","r","d","s">>, JNum(5)>>, <<<<"r","e","l","o","c","a","t","i","n","g","_","s","h","a","r","d","s">>, JNum(0)>>,
                    <<<<"u","n","a","s","s","i","g","n","e","d","_","s","h","a","r","d","s">>, JNum(1)>> >>)
        health(name) ==
            <<name, JObj(<< <<<<"s","t","a","t","u","s">>, JStr(<<"g","r","e","e","n">>)>>, <<<<"n","u","m","b","e","r","_","o","f","_","s","h","a","r","d","s">>, JNum(1)>> >>)>>
        names == Resolve(<<"*">>)
    IN  IF level = <<"c","l","u","s","t","e","r">> THEN cluster
        ELSE Put(cluster, <<"i","n","d","i","c","e","s">>, JObj([i \in DOMAIN names |-> health(names[i])]))

\* The rows _cat/indices/<pattern> answers with: those whose name matches
\* one of the comma-separated wildcard expressions of the pattern.
CatData(pattern) ==
    LET parts == splitComma(pattern, <<>>)
        listed(row) == \E k \in DOMAIN parts :
                           globMatch(parts[k], Get(row, <<"i","n","d","e","x">>).v)
    IN  JArr(SelectSeq(ClusterIndices, listed))

\* The mapping every index of the cluster has.
IndexMapping ==
        JObj(<< <<<<"m","a","p","p","i","n","g","s">>,
                  JObj(<< <<<<"p","r","o","p","e","r","t","i","e","s">>,
                            JObj(<< <<<<"a","m","o","u","n","t">>,
                                      JObj(<< <<<<"t","y","p","e">>, JStr(<<"d","o","u","b","l","e">>)>> >>)>>,
                                    <<<<"c","u","s","t","o","m","e","r">>,
                                      JObj(<< <<<<"t","y","p","e">>, JStr(<<"t","e","x","t">>)>>,
                                              <<<<"f","i","e","l","d","s">>,
                                                JObj(<< <<<<"k","e","y","w","o","r","d">>,
                                                          JObj(<< <<<<"t","y","p","e">>, JStr(<<"k","e","y","w","o","r","d">>)>> >>)>> >>)>> >>)>> >>)>> >>)>> >>)

\* The body of GET /<index>/_mapping: the mapping of every index the
\* expression resolves to, keyed by concrete index name.
MappingData(index) ==
    LET names == Resolve(index)
    IN  JObj([i \in DOMAIN names |-> <<names[i], IndexMapping>>])

\* Error bodies of the backend, by status.
ErrorData(status) ==
    CASE status = 400 ->
             JObj(<< <<<<"e","r","r","o","r">>,
                       JObj(<< <<<<"t","y","p","e">>, JStr(<<"p","a","r","s","i","n","g","_","e","x","c","e","p","t","i","o","n">>)>>,
                               <<<<"r","e","a","s","o","n">>,
                                 JStr(<<"n","o"," ","m","a","p","p","i","n","g"," ","f","o","r"," ","1","2","3","-","4","5","-","6","7","8","9">>)>> >>)>> >>)
      [] status = 404 ->
             JObj(<< <<<<"e","r","r","o","r">>,
                       JObj(<< <<<<"r","e","a","s","o","n">>, JStr(<<"n","o"," ","s","u","c","h"," ","i","n","d","e","x">>)>> >>)>> >>)
      [] status = 429 ->
             JObj(<< <<<<"e","r","r","o","r">>,
                       JObj(<< <<<<"r","e","a","s","o","n">>, JStr(<<"r","e","j","e","c","t","e","d"," ","e","x","e","c","u","t","i","o","n">>)>> >>)>> >>)
      [] status = 500 ->
             JObj(<< <<<<"m","e","s","s","a","g","e">>,
                       JStr(<<"I","n","t","e","r","n","a","l"," ","e","r","r","o","r"," ","f","o","r"," ","j","o","h","n",".","d","o","e","@","b","a","n","k",".","c","o","m">>)>> >>)
      [] OTHER -> Undefined

\* What one HTTP attempt of a call may end in.
Responses(call) ==
    CASE call.op = "search" ->
             {Returned(d) : d \in SearchData}
             \cup {Thrown(NetworkError)}
             \cup {Thrown(HttpError(s, ErrorData(s))) : s \in {400, 500, 503}}
      [] call.op = "catIndices" ->
             {Returned(CatData(call.target))}
             \cup {Thrown(HttpError(s, ErrorData(s))) : s \in {429, 503}}
      [] call.op = "getMapping" ->
             {Returned(MappingData(call.target))}
             \cup {Thrown(HttpError(s, ErrorData(s))) : s \in {404, 503}}
      [] call.op = "clusterHealth" ->
             {Returned(HealthData(call.target))}
             \cup {Thrown(HttpError(s, ErrorData(s))) : s \in {503}}
      [] call.op = "findAlertingRules" ->
             {Returned(RulesData)}
             \cup {Thrown(HttpError(s, ErrorData(s))) : s \in {403, 404, 500}}

(***************************************************************************)
(* One invocation of a secure tool                                         *)
(***************************************************************************)
VARIABLES
    config,          \* the ServerConfig singleton
    pc,              \* position of execute: idle, awaiting, settled, redact,
                     \* audit, return, returned, raised
    tool, input,     \* the tool invoked and its input
    calls,           \* the backend calls the logic has issued
    awaits,          \* number of awaits the logic has passed
    locals,          \* local variables the logic keeps across an await
    outcome,         \* what the logic's promise settled with
    result,          \* `result` of execute
    final,           \* finalResult, redactionCount, redactedTypes
    stderr,          \* the audit entries written
    returned         \* what execute gave its caller

vars == <<config, pc, tool, input, calls, awaits, locals, outcome, result,
          final, stderr, returned>>

NoFinal == [finalResult |-> Undefined, redactionCount |-> 0, redactedTypes |-> <<>>]

\* The state after construction under one of the environments envs.
InitWith(envs) ==
    /\ config \in {loadConfig(env) : env \in envs}
    /\ pc = "idle"
    /\ tool = "none"
    /\ input = Undefined
    /\ calls = <<>>
    /\ awaits = 0
    /\ locals = Undefined
    /\ outcome = Thrown(ThrownUndefined)
    /\ result = Undefined
    /\ final = NoFinal
    /\ stderr = <<>>
    /\ returned = Thrown(ThrownUndefined)

Init == InitWith(Environments)

\* options.execute(input, { config, esClient }) up to its first await.
toolStart(t, in) ==
    CASE t = "kibana_search"      -> kibanaSearchStart(config, in)
      [] t = "get_index_mappings" -> getIndexMappingsStart(config, in)
      [] t = "list_indices"       -> listIndicesStart(config, in)
      [] t = "discover_cluster"   -> discoverClusterStart(config, in)
      [] t = "get_alert_status"   -> getAlertStatusStart(config, in)
      [] t = "check_cluster_health" -> checkClusterHealthStart(config, in)

\* The logic from the await it is suspended at to the next one.
toolResumeOf(t, in, issued, passed, kept) ==
    CASE t = "kibana_search"      -> kibanaSearchResume(issued)
      [] t = "get_index_mappings" -> getIndexMappingsResume(in, issued)
      [] t = "list_indices"       -> listIndicesResume(config, in, issued)
      [] t = "get_alert_status"   -> getAlertStatusResume(in, issued)
      [] t = "check_cluster_health" -> checkClusterHealthResume(in, issued)
      [] t = "discover_cluster" /\ passed = 0 ->
             discoverClusterFetch(config, in, issued)
      [] t = "discover_cluster" /\ passed = 1 ->
             discoverClusterFinish(issued, kept)

toolResume == toolResumeOf(tool, input, calls, awaits, locals)

Proceed(state) ==
    /\ calls' = state.calls
    /\ locals' = state.locals
    /\ outcome' = state.outcome
    /\ pc' = IF state.settled THEN "settled" ELSE "awaiting"

\* execute is called: startTime, then the logic runs to its first await.
Call(inv) ==
    /\ tool' = inv[1]
    /\ input' = inv[2]
    /\ Proceed(toolStart(inv[1], inv[2]))
    /\ UNCHANGED <<config, awaits, result, final, stderr, returned>>

Invoke ==
    /\ pc = "idle"
    /\ \E inv \in Invocations : Call(inv)

\* One HTTP attempt of a call settles.
Settle(c, r) ==
    /\ calls[c].st = "attempting"
    /\ calls' = [calls EXCEPT ![c] =
                     IF r.ok THEN attemptSucceeded(@, r.value)
                     ELSE attemptFailed(config, @, r.error)]
    /\ UNCHANGED <<config, pc, tool, input, awaits, locals, outcome, result,
                   final, stderr, returned>>

Attempt ==
    /\ pc = "awaiting"
    /\ \E c \in DOMAIN calls : \E r \in Responses(calls[c]) : Settle(c, r)

\* The backoff timer of a call fires.
Backoff ==
    /\ pc = "awaiting"
    /\ \E c \in DOMAIN calls :
          /\ calls[c].st = "sleeping"
          /\ calls' = [calls EXCEPT ![c] = afterSleep(config, @)]
    /\ UNCHANGED <<config, pc, tool, input, awaits, locals, outcome, result,
                   final, stderr, returned>>

\* Every call the logic awaits has settled: the logic runs on.
Resume ==
    /\ pc = "awaiting"
    /\ \A c \in DOMAIN calls : IsSettled(calls[c])
    /\ Proceed(toolResume)
    /\ awaits' = awaits + 1
    /\ UNCHANGED <<config, tool, input, result, final, stderr, returned>>

\* The logic's promise has settled: try/catch of execute.
Normalize ==
    /\ pc = "settled"
    /\ IF normalize(outcome).ok
       THEN /\ result' = normalize(outcome).value
            /\ pc' = "redact"
            /\ UNCHANGED returned
       ELSE /\ returned' = normalize(outcome)
            /\ pc' = "raised"
            /\ UNCHANGED result
    /\ UNCHANGED <<config, tool, input, calls, awaits, locals, outcome, final,
                   stderr>>

\* The redaction step.
Redact ==
    /\ pc = "redact"
    /\ final' = redactionStep(config, result)
    /\ pc' = "audit"
    /\ UNCHANGED <<config, tool, input, calls, awaits, locals, outcome, result,
                   stderr, returned>>

\* auditLogger.log(...)
Audit ==
    /\ pc = "audit"
    /\ stderr' = log(config.auditEnabled, stderr,
                     auditEntry(tool, input, final.finalResult,
                                final.redactionCount, final.redactedTypes))
    /\ pc' = "return"
    /\ UNCHANGED <<config, tool, input, calls, awaits, locals, outcome, result,
                   final, returned>>

\* return finalResult
Return ==
    /\ pc = "return"
    /\ returned' = Returned(final.finalResult)
    /\ pc' = "returned"
    /\ UNCHANGED <<config, tool, input, calls, awaits, locals, outcome, result,
                   final, stderr>>

Next ==
    \/ Invoke
    \/ Attempt
    \/ Backoff
    \/ Resume
    \/ Normalize
    \/ Redact
    \/ Audit
    \/ Return

Spec == Init /\ [][Next]_vars

(***************************************************************************)
(* Searches: the query bodies, sizes and time ranges of kibana_search      *)
(***************************************************************************)
\* MAX_SEARCH_SIZE unset, below the range, inside it and above it; one
\* attempt per call.
SizeEnvironments ==
    [ ALLOWED_INDEX_PATTERNS : {<<>>},
      MAX_SEARCH_SIZE        : {<<>>, <<"0">>, <<"3">>, <<"9","9","9","9">>},
      RETRY_ATTEMPTS         : {<<"1">>},
      RETRY_DELAY_MS         : {<<>>},
      AUDIT_ENABLED          : {<<>>},
      PII_REDACTION_ENABLED  : {<<>>} ]

TermClause(field, value) ==
    JObj(<< <<<<"t","e","r","m">>, JObj(<< <<field, JStr(value)>> >>)>> >>)

\* Query bodies of the three shapes: without a query key, with a query that
\* is not a bool clause, and with a bool clause whose filter is absent, a
\* single clause, a list or an empty list.
QueryBodies ==
    { JObj(<<>>),
      JObj(<< <<<<"s","i","z","e">>, JNum(1000)>>, <<<<"s","o","r","t">>, JStr(<<"@","t","i","m","e","s","t","a","m","p">>)>> >>),
      MatchAll,
      JObj(<< <<<<"f","r","o","m">>, JNum(5)>>,
              <<<<"q","u","e","r","y">>, TermClause(<<"s","t","a","t","u","s">>, <<"f","a","i","l","e","d">>)>>,
              <<<<"s","i","z","e">>, JNum(1000)>> >>),
      JObj(<< <<<<"q","u","e","r","y">>,
                JObj(<< <<<<"b","o","o","l">>,
                          JObj(<< <<<<"m","u","s","t">>, JArr(<<TermClause(<<"s","t","a","t","u","s">>, <<"f","a","i","l","e","d">>)>>)>> >>)>> >>)>> >>),
      BoolQuery,
      JObj(<< <<<<"q","u","e","r","y">>,
                JObj(<< <<<<"b","o","o","l">>,
                          JObj(<< <<<<"f","i","l","t","e","r">>,
                                    JArr(<<TermClause(<<"s","t","a","t","u","s">>, <<"f","a","i","l","e","d">>),
                                           TermClause(<<"r","e","g","i","o","n">>, <<"e","u">>)>>)>>,
                                  <<<<"m","u","s","t","_","n","o","t">>, TermClause(<<"e","n","v">>, <<"t","e","s","t">>)>> >>)>> >>)>>,
              <<<<"s","o","r","t">>, JStr(<<"@","t","i","m","e","s","t","a","m","p">>)>> >>),
      JObj(<< <<<<"s","i","z","e">>, JNum(2)>>,
              <<<<"q","u","e","r","y">>,
                JObj(<< <<<<"b","o","o","l">>,
                          JObj(<< <<<<"s","h","o","u","l","d">>, JArr(<<TermClause(<<"e","n","v">>, <<"t","e","s","t">>)>>)>>,
                                  <<<<"f","i","l","t","e","r">>, JArr(<<>>)>> >>)>> >>)>> >>) }

\* A query whose serialization is longer than the audit logger keeps.
LongQuery ==
    JObj(<< <<<<"q","u","e","r","y">>,
              JObj(<< <<<<"m","a","t","c","h">>,
                        JObj(<< <<<<"m","e","s","s","a","g","e">>, JStr([i \in 1..520 |-> "x"])>> >>)>> >>)>> >>)

SearchInvocations ==
    { <<"kibana_search", SearchInput(<<"l","o","g","s","-","a">>, body, size, time_range)>> :
          body \in QueryBodies, size \in {1, 5, 200, 600},
          time_range \in {Undefined, JStr(<<>>), JStr(<<"n","o","w","-","2","4","h">>)} }
    \cup { <<"kibana_search", SearchInput(<<"l","o","g","s","-","a">>, LongQuery, 5, Undefined)>> }
    \cup { <<"kibana_search", SearchInput(<<"l","o","g","s","-","a">>, body, 5,
                                            JStr(<<"n","o","w","-","1","d","/","S","c","r","i","p","t">>))>> :
               body \in QueryBodies }

SearchInit == InitWith(SizeEnvironments)

\* A kibana_search is invoked.
InvokeSearch ==
    /\ pc = "idle"
    /\ \E inv \in SearchInvocations : Call(inv)

SearchNext ==
    \/ InvokeSearch
    \/ Attempt
    \/ Resume
    \/ Normalize
    \/ Redact
    \/ Audit
    \/ Return

SearchSpec == SearchInit /\ [][SearchNext]_vars

(***************************************************************************)
(* Redaction: one search whose hit carries a text from a bounded set       *)
(***************************************************************************)
\* Card numbers (16 digits and other lengths, passing and failing the Luhn
\* checksum), phone numbers, and one value of each other category.
Tokens ==
    { <<"1","2","3","4","5","6","7","8","9","0","1","2","3","4","5","6">>, <<"1","2","3","4","-","5","6","7","8","-","9","0","1","2","-","3","4","5","6">>, <<"1","2","3","4"," ","5","6","7","8"," ","9","0","1","2"," ","3","4","5","6">>,
      <<"4","1","1","1","-","1","1","1","1"," ","1","1","1","1","-","1","1","1","2">>,
      <<"4","1","1","1","1","1","1","1","1","1","1","1","1","1","1","1">>, <<"4","1","1","1","-","1","1","1","1","-","1","1","1","1","-","1","1","1","1">>, <<"4","1","1","1"," ","1","1","1","1"," ","1","1","1","1"," ","1","1","1","1">>,
      <<"5","5","0","0"," ","0","0","0","0"," ","0","0","0","0"," ","0","0","0","4">>, <<"4","1","1","1","-","1","1","1","1"," ","1","1","1","1","-","1","1","1","1">>,
      <<"4","2","2","2","2","2","2","2","2","2","2","2","2">>, <<"3","0","5","6","9","3","0","9","0","2","5","9","0","4">>, <<"3","7","8","2","8","2","2","4","6","3","1","0","0","0","5">>,
      <<"3","7","8","2"," ","8","2","2","4","6","3"," ","1","0","0","0","5">>, <<"6","3","0","4","0","0","0","0","0","0","0","0","0","0","0","0","0","0","0">>,
      <<"+","1"," ","5","5","5","-","1","2","3","-","4","5","6","7">>, <<"+","3","1"," ","6"," ","1","2","3","4"," ","5","6","7","8">>, <<"+","3","1","6","1","2","3","4","5","6","7","8">>,
      <<"+","1","-","5","5","5","-","1","2","3","-","4","5","6","7">>, <<"+","4","4"," ","2","0"," ","7","9","4","6"," ","0","9","5","8">>, <<"+","4","9"," ","3","0"," ","1","2","3","4","5","6","7">>,
      <<"+","1"," ","5","5","5"," ","1","2">>, <<"+","3","1",".","6",".","1","2","3","4",".","5","6","7","8">>,
      <<"j","o","h","n",".","d","o","e","@","b","a","n","k",".","c","o","m">>, <<"1","2","3","-","4","5","-","6","7","8","9">>, <<"N","L","9","1","A","B","N","A","0","4","1","7","1","6","4","3","0","0">>,
      <<"D","E","8","9","3","7","0","4","0","0","4","4","0","5","3","2","0","1","3","0","0","0">>, <<"A","C","T","I","V","E">> }

\* What stands before and after a token in the string value that holds it.
Contexts ==
    { <<<<>>, <<>>>>, <<<<"c","a","r","d"," ">>, <<" ","d","e","c","l","i","n","e","d">>>>, <<<<"+">>, <<>>>>,
      <<<<>>, <<"@","b","a","n","k",".","c","o","m">>>> }

Texts == {ctx[1] \o token \o ctx[2] : ctx \in Contexts, token \in Tokens}

\* A search response with one hit whose _source is the given document.
HitData(source) ==
    JObj(<< <<<<"h","i","t","s">>,
              JObj(<< <<<<"t","o","t","a","l">>, JObj(<< <<<<"v","a","l","u","e">>, JNum(1)>> >>)>>,
                      <<<<"h","i","t","s">>, JArr(<<JObj(<< <<<<"_","s","o","u","r","c","e">>, source>> >>)>>)>> >>)>> >>)

TextData(text) == HitData(JObj(<< <<<<"m","e","s","s","a","g","e">>, JStr(text)>> >>))

\* Documents as JSON.parse builds them from a backend response: nested
\* lists and objects, every primitive type, and the key __proto__ as an
\* own property.
Documents ==
    { JObj(<<>>),
      JObj(<< <<<<"n","a","m","e">>, JStr(<<"x">>)>>, <<<<"c","o","u","n","t">>, JNum(3)>>,
              <<<<"a","c","t","i","v","e">>, JBool(TRUE)>>, <<<<"n","o","n","e">>, JNull>>,
              <<<<"t","a","g","s">>, JArr(<<JStr(<<"a","@","b",".","c","o">>), JNum(5), JBool(FALSE), JNull,
                                JArr(<<JStr(<<"1","2","3","-","4","5","-","6","7","8","9">>)>>)>>)>>,
              <<<<"n","e","s","t","e","d">>,
                JObj(<< <<<<"e","m","a","i","l">>, JStr(<<"j","a","n","e","@","e","x","a","m","p","l","e",".","c","o","m">>)>>,
                        <<<<"d","e","e","p">>, JObj(<< <<<<"n">>, JNum(0)>>,
                                            <<<<"s","s","n">>, JStr(<<"9","8","7","-","6","5","-","4","3","2","1">>)>> >>)>> >>)>> >>),
      JObj(<< <<<<"l","i","s","t">>, JArr(<<>>)>>, <<<<"e","m","p","t","y">>, JObj(<<>>)>>, <<<<"n">>, JNum(7)>> >>),
      JObj(<< <<<<"u","s","e","r">>, JStr(<<"b","o","b">>)>>,
              <<<<"_","_","p","r","o","t","o","_","_">>, JObj(<< <<<<"c","a","r","d">>, JStr(<<"4","1","1","1"," ","1","1","1","1"," ","1","1","1","1"," ","1","1","1","1">>)>> >>)>> >>),
      JObj(<< <<<<"_","_","p","r","o","t","o","_","_">>, JStr(<<"p","o","l","l","u","t","e","d">>)>>, <<<<"a">>, JNum(1)>> >>) }

RedactionInit == InitWith({env \in SizeEnvironments : env.MAX_SEARCH_SIZE = <<>>})

InvokeRedaction ==
    /\ pc = "idle"
    /\ Call(<<"kibana_search", SearchInput(<<"l","o","g","s","-","a">>, MatchAll, 5, Undefined)>>)

\* The search answers with a hit holding one of the texts.
Deliver ==
    /\ pc = "awaiting"
    /\ \E text \in Texts : Settle(1, Returned(TextData(text)))

\* The search answers with a hit holding one of the documents.
DeliverDocument ==
    /\ pc = "awaiting"
    /\ \E doc \in Documents : Settle(1, Returned(HitData(doc)))

RedactionNext ==
    \/ InvokeRedaction
    \/ Deliver
    \/ DeliverDocument
    \/ Resume
    \/ Normalize
    \/ Redact
    \/ Audit
    \/ Return

RedactionSpec == RedactionInit /\ [][RedactionNext]_vars

\* The text of the hit as the backend sent it, and as the pipeline hands it on.
deliveredText ==
    Get(Get(Get(Get(calls[1].value, <<"h","i","t","s">>), <<"h","i","t","s">>).v[1], <<"_","s","o","u","r","c","e">>), <<"m","e","s","s","a","g","e">>).v

redactedText == Get(Get(final.finalResult, <<"d","a","t","a">>).v[1], <<"m","e","s","s","a","g","e">>).v

\* The redaction step has run on a delivered text.
Redacted == pc \in {"audit", "return", "returned"} /\ IsSuccess(result)

(***************************************************************************)
(* Object identity: kibana_search on a heap.  The caller's input is a      *)
(* graph of cells; a slot holds a primitive value or a reference, so that  *)
(* a spread copies references and a write through one of them would show   *)
(* in the caller's object.                                                 *)
(***************************************************************************)
Ref(address) == [t |-> "ref", v |-> address]

\* A new object or array: the heap with the cell added, and its reference.
new(heap, cell) == [heap |-> Append(heap, cell), slot |-> Ref(Len(heap) + 1)]

\* The object graph of a JSON value, built in fresh cells.
RECURSIVE allocate(_, _)
RECURSIVE allocateAll(_, _)
allocateAll(heap, values) ==
    IF values = <<>> THEN [heap |-> heap, slots |-> <<>>]
    ELSE LET h == allocate(heap, Head(values))
             r == allocateAll(h.heap, Tail(values))
         IN  [heap |-> r.heap, slots |-> <<h.slot>> \o r.slots]

allocate(heap, value) ==
    CASE value.t = "obj" ->
             LET members == allocateAll(heap, [i \in DOMAIN value.v |-> value.v[i][2]])
             IN  new(members.heap,
                     JObj([i \in DOMAIN value.v |-> <<value.v[i][1], members.slots[i]>>]))
      [] value.t = "arr" ->
             LET elements == allocateAll(heap, value.v)
             IN  new(elements.heap, JArr(elements.slots))
      [] OTHER -> [heap |-> heap, slot |-> value]

\* The JSON value a slot stands for (what JSON.stringify walks).
RECURSIVE deref(_, _)
deref(heap, slot) ==
    IF slot.t # "ref" THEN slot
    ELSE LET cell == heap[slot.v]
         IN  IF cell.t = "obj"
             THEN JObj([i \in DOMAIN cell.v |-> <<cell.v[i][1], deref(heap, cell.v[i][2])>>])
             ELSE JArr([i \in DOMAIN cell.v |-> deref(heap, cell.v[i])])

\* slot.key, undefined when the slot is not an object
member(heap, slot, key) ==
    IF slot.t = "ref" THEN Get(heap[slot.v], key) ELSE Undefined

\* The own properties { ...slot } copies.
spread(heap, slot) ==
    IF slot.t = "ref" /\ heap[slot.v].t = "obj" THEN heap[slot.v] ELSE JObj(<<>>)

\* A merge that stores the new filter list in the clause it was given.
boolWithFilter_inPlace(heap, bool, rangeFilterSlot) ==
    LET filter == member(heap, bool, <<"f","i","l","t","e","r">>)
        existing == IF filter.t = "ref" /\ heap[filter.v].t = "arr" THEN heap[filter.v].v
                    ELSE IF Truthy(filter) THEN <<filter>>
                    ELSE <<>>
        list == new(heap, JArr(Append(existing, rangeFilterSlot)))
    IN  [heap |-> [list.heap EXCEPT ![bool.v] = Put(@, <<"f","i","l","t","e","r">>, list.slot)],
         slot |-> bool]

\* { ...bool, filter: [...(Array.isArray(bool.filter) ? bool.filter
\*                        : bool.filter ? [bool.filter] : []), rangeFilter] }
boolWithFilter(heap, bool, rangeFilterSlot) ==
    LET filter == member(heap, bool, <<"f","i","l","t","e","r">>)
        existing == IF filter.t = "ref" /\ heap[filter.v].t = "arr" THEN heap[filter.v].v
                    ELSE IF Truthy(filter) THEN <<filter>>
                    ELSE <<>>
        list == new(heap, JArr(Append(existing, rangeFilterSlot)))
    IN  new(list.heap, Put(spread(list.heap, bool), <<"f","i","l","t","e","r">>, list.slot))

\* { ...body, query: { bool } }
bodyWithBool(heap, body, bool) ==
    LET query == new(heap, JObj(<< <<<<"b","o","o","l">>, bool>> >>))
    IN  new(query.heap, Put(spread(query.heap, body), <<"q","u","e","r","y">>, query.slot))

\* The match over classifyQuery(searchBody), object by object.
mergeOnHeap(heap, body, time_range) ==
    LET made == allocate(heap, rangeFilter(time_range))
        query == member(made.heap, body, <<"q","u","e","r","y">>)
        bool == member(made.heap, query, <<"b","o","o","l">>)
        list == new(made.heap, JArr(<<made.slot>>))
        must == new(list.heap, JArr(<<query>>))
    IN  IF Truthy(bool)
        THEN LET clause == boolWithFilter(made.heap, bool, made.slot)
             IN  bodyWithBool(clause.heap, body, clause.slot)
        ELSE IF Truthy(query)
        THEN LET clause == new(must.heap, JObj(<< <<<<"m","u","s","t">>, must.slot>>,
                                                  <<<<"f","i","l","t","e","r">>, list.slot>> >>))
             IN  bodyWithBool(clause.heap, body, clause.slot)
        ELSE LET clause == new(list.heap, JObj(<< <<<<"f","i","l","t","e","r">>, list.slot>> >>))
             IN  bodyWithBool(clause.heap, body, clause.slot)

\* kibana_search up to its await of esClient.search, on the heap: the heap
\* it leaves and where the logic stands.
kibanaSearchOnHeap(heap, in) ==
    LET index == member(heap, in, <<"i","n","d","e","x">>).v
        query == member(heap, in, <<"q","u","e","r","y">>)
        time_range == member(heap, in, <<"t","i","m","e","_","r","a","n","g","e">>)
        copy == new(heap, spread(heap, query))            \* let searchBody = { ...query }
        searchBody == IF Truthy(time_range)
                      THEN mergeOnHeap(copy.heap, copy.slot, time_range)
                      ELSE copy
    IN  IF ~validateIndexName(index).ok
        THEN [heap |-> heap, state |-> Settled(validateIndexName(index), <<>>)]
        ELSE IF ~validateReadOnlyQuery(deref(heap, query)).ok
        THEN [heap |-> heap, state |-> Settled(validateReadOnlyQuery(deref(heap, query)), <<>>)]
        ELSE [heap |-> searchBody.heap,
              state |-> Waiting(<<search(config, index,
                                         deref(searchBody.heap, searchBody.slot),
                                         sizeOrDefault(member(heap, in, <<"s","i","z","e">>)))>>,
                                Undefined)]

\* The input parameters as the caller (and JSON.stringify(input)) sees them.
callerInput == deref(input.heap, input.root)

HeapInit == InitWith({env \in SizeEnvironments : env.MAX_SEARCH_SIZE = <<>>})

\* The caller builds the input object and calls execute.
InvokeHeap ==
    /\ pc = "idle"
    /\ \E inv \in SearchInvocations :
          /\ tool' = inv[1]
          /\ input' = [heap |-> allocate(<<>>, inv[2]).heap,
                       root |-> allocate(<<>>, inv[2]).slot]
    /\ pc' = "called"
    /\ UNCHANGED <<config, calls, awaits, locals, outcome, result, final, stderr,
                   returned>>

HeapProceed(started) ==
    /\ input' = [heap |-> started.heap, root |-> input.root]
    /\ Proceed(started.state)

\* The logic runs to its first await.
StartHeap ==
    /\ pc = "called"
    /\ HeapProceed(kibanaSearchOnHeap(input.heap, input.root))
    /\ UNCHANGED <<config, tool, awaits, result, final, stderr, returned>>

\* auditLogger.log(...): JSON.stringify(input) reads the object as it is now.
AuditHeap ==
    /\ pc = "audit"
    /\ stderr' = log(config.auditEnabled, stderr,
                     auditEntry(tool, callerInput, final.finalResult,
                                final.redactionCount, final.redactedTypes))
    /\ pc' = "return"
    /\ UNCHANGED <<config, tool, input, calls, awaits, locals, outcome, result,
                   final, returned>>

HeapNext ==
    \/ InvokeHeap
    \/ StartHeap
    \/ Attempt
    \/ Resume
    \/ Normalize
    \/ Redact
    \/ AuditHeap
    \/ Return

HeapSpec == HeapInit /\ [][HeapNext]_vars

(***************************************************************************)
(* Concurrent invocations: several calls of execute on one event loop.     *)
(* Every variable but config and stderr holds one value per task.  A task  *)
(* is suspended only at an await; what follows the last await (try/catch,  *)
(* redaction, audit, return) runs to completion in one step.               *)
(***************************************************************************)
NumTasks == 2

Tasks == 1..NumTasks

TaskEnvironments ==
    [ ALLOWED_INDEX_PATTERNS : {<<>>},
      MAX_SEARCH_SIZE        : {<<>>},
      RETRY_ATTEMPTS         : {<<"0">>, <<"2">>},
      RETRY_DELAY_MS         : {<<>>},
      AUDIT_ENABLED          : {<<>>},
      PII_REDACTION_ENABLED  : {<<>>} ]

TaskInvocations ==
    { <<"kibana_search", SearchInput(<<"l","o","g","s","-","a">>, MatchAll, 5, Undefined)>>,
      <<"get_index_mappings", IndexInput(<<"l","o","g","s","-","a">>)>> }

\* What an HTTP attempt ends in here: an answer, or HTTP 503.
TaskResponses(call) ==
    {r \in Responses(call) : ~r.ok => r.error.response.status = 503}

TaskInit ==
    /\ config \in {loadConfig(env) : env \in TaskEnvironments}
    /\ pc = [i \in Tasks |-> "idle"]
    /\ tool = [i \in Tasks |-> "none"]
    /\ input = [i \in Tasks |-> Undefined]
    /\ calls = [i \in Tasks |-> <<>>]
    /\ awaits = [i \in Tasks |-> 0]
    /\ locals = [i \in Tasks |-> Undefined]
    /\ outcome = [i \in Tasks |-> Thrown(ThrownUndefined)]
    /\ result = [i \in Tasks |-> Undefined]
    /\ final = [i \in Tasks |-> NoFinal]
    /\ stderr = <<>>
    /\ returned = [i \in Tasks |-> Thrown(ThrownUndefined)]

TaskProceed(i, state) ==
    /\ calls' = [calls EXCEPT ![i] = state.calls]
    /\ locals' = [locals EXCEPT ![i] = state.locals]
    /\ outcome' = [outcome EXCEPT ![i] = state.outcome]
    /\ pc' = [pc EXCEPT ![i] = IF state.settled THEN "settled" ELSE "awaiting"]

\* Task i calls execute: the logic runs to its first await.
TaskInvoke(i) ==
    /\ pc[i] = "idle"
    /\ \E inv \in TaskInvocations :
          /\ tool' = [tool EXCEPT ![i] = inv[1]]
          /\ input' = [input EXCEPT ![i] = inv[2]]
          /\ TaskProceed(i, toolStart(inv[1], inv[2]))
    /\ UNCHANGED <<config, awaits, result, final, stderr, returned>>

\* One HTTP attempt of a call of task i settles.
TaskAttempt(i) ==
    /\ pc[i] = "awaiting"
    /\ \E c \in DOMAIN calls[i] : \E r \in TaskResponses(calls[i][c]) :
          /\ calls[i][c].st = "attempting"
          /\ calls' = [calls EXCEPT ![i][c] =
                           IF r.ok THEN attemptSucceeded(@, r.value)
                           ELSE attemptFailed(config, @, r.error)]
    /\ UNCHANGED <<config, pc, tool, input, awaits, locals, outcome, result,
                   final, stderr, returned>>

\* The backoff timer of a call of task i fires.
TaskBackoff(i) ==
    /\ pc[i] = "awaiting"
    /\ \E c \in DOMAIN calls[i] :
          /\ calls[i][c].st = "sleeping"
          /\ calls' = [calls EXCEPT ![i][c] = afterSleep(config, @)]
    /\ UNCHANGED <<config, pc, tool, input, awaits, locals, outcome, result,
                   final, stderr, returned>>

\* Every call task i awaits has settled: its logic runs on.
TaskResume(i) ==
    /\ pc[i] = "awaiting"
    /\ \A c \in DOMAIN calls[i] : IsSettled(calls[i][c])
    /\ TaskProceed(i, toolResumeOf(tool[i], input[i], calls[i], awaits[i], locals[i]))
    /\ awaits' = [awaits EXCEPT ![i] = @ + 1]
    /\ UNCHANGED <<config, tool, input, result, final, stderr, returned>>

\* Task i leaves execute with the normalized outcome and, when that is a
\* result, with what the redaction step made of it.
TaskEnd(i, normalized, done) ==
    IF normalized.ok
    THEN /\ result' = [result EXCEPT ![i] = normalized.value]
         /\ final' = [final EXCEPT ![i] = done]
         /\ stderr' = log(config.auditEnabled, stderr,
                          auditEntry(tool[i], input[i], done.finalResult,
                                     done.redactionCount, done.redactedTypes))
         /\ returned' = [returned EXCEPT ![i] = Returned(done.finalResult)]
         /\ pc' = [pc EXCEPT ![i] = "returned"]
    ELSE /\ returned' = [returned EXCEPT ![i] = normalized]
         /\ pc' = [pc EXCEPT ![i] = "raised"]
         /\ UNCHANGED <<result, final, stderr>>

\* The promise of task i's logic has settled: try/catch, redaction step,
\* auditLogger.log and return, with no await in between.
TaskFinish(i) ==
    /\ pc[i] = "settled"
    /\ TaskEnd(i, normalize(outcome[i]), redactionStep(config, normalize(outcome[i]).value))
    /\ UNCHANGED <<config, tool, input, calls, awaits, locals, outcome>>

ConcurrentNext ==
    \E i \in Tasks :
        \/ TaskInvoke(i)
        \/ TaskAttempt(i)
        \/ TaskBackoff(i)
        \/ TaskResume(i)
        \/ TaskFinish(i)

ConcurrentSpec == TaskInit /\ [][ConcurrentNext]_vars

(***************************************************************************)
(* Properties of the pipeline                                              *)
(***************************************************************************)
\* C1, as claimed: with auditing enabled every invocation, whatever its
\* logic returned or threw, writes exactly one audit entry, after the
\* redaction step and before the Outcome is returned, whose status is the
\* tag of the returned Outcome; with auditing disabled none is written.
AuditExactlyOnce ==
    /\ pc \in {"idle", "awaiting", "settled", "redact", "audit"} => stderr = <<>>
    /\ ~config.auditEnabled => stderr = <<>>
    /\ (config.auditEnabled /\ pc \in {"return", "returned", "raised"}) =>
           Len(stderr) = 1
    /\ (config.auditEnabled /\ pc = "returned") =>
           /\ IsSuccess(returned.value) => stderr[1].status = "success"
           /\ IsFailure(returned.value) => stderr[1].status = "error"
           /\ IsSuccess(returned.value) \/ IsFailure(returned.value)

\* C2, as claimed: whatever the configuration (retryAttempts 0 included)
\* and whatever fault the logic, a guardrail or the backend client raises,
\* execute never raises to its caller and returns an Outcome tagged error.
NeverRaises ==
    /\ pc # "raised"
    /\ (pc = "returned" /\ ~outcome.ok) =>
           /\ returned.ok
           /\ IsFailure(returned.value)
           /\ Get(returned.value, <<"e","r","r","o","r">>).t = "str"

\* C3: when the logic yields a Success and redaction is enabled, what the
\* caller gets is the copy the redaction engine produced, not the original
\* wherever the engine masked something, and the audit entry carries the
\* count and categories of that same run.
RedactedCopyReturned ==
    (pc = "returned" /\ IsSuccess(result) /\ config.piiRedactionEnabled) =>
        LET redaction == redactPII(result)
        IN  /\ returned = Returned(redaction.redactedData)
            /\ redaction.redactionCount > 0 => returned.value # result
            /\ config.auditEnabled =>
                   /\ stderr[1].redaction_count = redaction.redactionCount
                   /\ stderr[1].redacted_types = redaction.redactedTypes

RedactedCopyReturned_witness ==
    /\ pc = "returned"
    /\ IsSuccess(result)
    /\ config.piiRedactionEnabled
    /\ config.auditEnabled
    /\ final.redactionCount = 2
    /\ returned.value # result

\* C4, as claimed: with redaction enabled no returned Outcome, Success or
\* Failure, carries a value the redaction engine would mask.
EveryResponseRedacted ==
    (pc = "returned" /\ config.piiRedactionEnabled) =>
        redactPII(returned.value).redactionCount = 0

\* C5, as claimed: an attempt of withRetry is followed by a sleep or another
\* attempt only if it failed without an HTTP status or with 429 or 503.
OnlyTransientRetried ==
    \A c \in DOMAIN calls :
        \A i \in DOMAIN calls[c].responses :
            (i < Len(calls[c].responses) \/ calls[c].st \in {"attempting", "sleeping"})
                => calls[c].responses[i] \in {0, 429, 503}

\* C6: for every sequence of backend responses a withRetry call makes at
\* most retryAttempts attempts and at most retryAttempts - 1 backoff sleeps;
\* when the last of its retryAttempts attempts fails, that failure is the
\* one it throws and no sleep follows it; and the call terminates: every
\* step of a call that has not settled lowers the number of attempts and
\* sleeps it still has ahead, which is never negative.
RetryTerminates ==
    [][\A c \in DOMAIN calls' :
          LET call == calls'[c]
              made == Len(call.responses)
              inFlight == IF call.st = "attempting" THEN 1 ELSE 0
              ahead(x) == IF IsSettled(x) THEN 0
                          ELSE 2 * (config.retryAttempts - x.attempt)
                               - (IF x.st = "sleeping" THEN 1 ELSE 0)
          IN  /\ made + inFlight <= Max(config.retryAttempts, 0)
              /\ Len(call.sleeps) <= Max(config.retryAttempts - 1, 0)
              /\ (made >= 1 /\ made = config.retryAttempts /\ call.responses[made] # 200) =>
                     /\ call.st = "thrown"
                     /\ Await(call) = Thrown(call.lastError)
                     /\ call.lastError \in
                            {r.error : r \in {x \in Responses(call) : ~x.ok}}
                     /\ call.lastError.response.status = call.responses[made]
                     /\ Len(call.sleeps) = made - 1
              /\ ahead(call) >= 0
              /\ (c \in DOMAIN calls /\ call # calls[c]) =>
                     /\ ~IsSettled(calls[c])
                     /\ ahead(call) < ahead(calls[c])
      ]_vars

RetryTerminates_witness ==
    \E c \in DOMAIN calls :
        /\ config.retryAttempts = 3
        /\ calls[c].responses = <<503, 0, 503>>
        /\ calls[c].st = "thrown"
        /\ Len(calls[c].sleeps) = 2

\* C7: the sleep after failed attempt index i lasts retryDelayMs * 2^i; with
\* retryAttempts >= 3 and a positive retryDelayMs, a call that fails twice
\* with 503 and then succeeds returns the successful result after exactly
\* two sleeps, of retryDelayMs and 2 * retryDelayMs.
BackoffDoubles ==
    \A c \in DOMAIN calls :
        LET call == calls[c]
        IN  /\ \A i \in DOMAIN call.sleeps :
                   call.sleeps[i] = config.retryDelayMs * 2^(i - 1)
            /\ (/\ config.retryAttempts >= 3
                /\ config.retryDelayMs > 0
                /\ call.responses = <<503, 503, 200>>) =>
                   /\ call.st = "returned"
                   /\ Returned(call.value) \in Responses(call)
                   /\ Await(call) = Returned(call.value)
                   /\ call.sleeps = <<config.retryDelayMs, 2 * config.retryDelayMs>>
                   /\ call.sleeps[1] < call.sleeps[2]

BackoffDoubles_witness ==
    /\ pc = "returned"
    /\ IsSuccess(result)
    /\ config.retryAttempts >= 3
    /\ config.retryDelayMs > 0
    /\ \E c \in DOMAIN calls : calls[c].responses = <<503, 503, 200>>

InvalidNameRejected ==
    LET name == IF tool \in {"kibana_search", "get_index_mappings"}
                THEN Get(input, <<"i","n","d","e","x">>).v
                ELSE patternOrDefault(Get(input, <<"p","a","t","t","e","r","n">>))
        safe == Range(UpperChars) \cup Range(LowerChars) \cup Range(DigitChars)
                \cup {"-", ".", "*", ",", "_"}
        invalid == name = <<>> \/ \E i \in DOMAIN name : name[i] \notin safe
        message == Get(returned.value, <<"e","r","r","o","r">>)
    IN  (pc # "idle" /\ invalid) =>
            /\ calls = <<>>
            /\ pc # "raised"
            /\ pc = "returned" =>
                   /\ IsFailure(returned.value)
                   /\ message.t = "str"
                   /\ includes(message.v, <<"I","n","v","a","l","i","d"," ","i","n","d","e","x"," ","n","a","m","e"," ","\"">> \o name \o <<"\"">>)

InvalidNameRejected_witness ==
    /\ pc = "returned"
    /\ tool = "discover_cluster"
    /\ Get(input, <<"p","a","t","t","e","r","n">>) = JStr(<<".",".","/","e","t","c","/","p","a","s","s","w","d">>)
    /\ IsFailure(returned.value)
    /\ calls = <<>>

\* C10: validateReadOnlyQuery rejects a body exactly when its lower-cased
\* JSON serialization contains one of script, _update, _delete, _bulk,
\* ctx._source; the message reports the first of these, in that order, that
\* occurs, and a rejected kibana_search makes no backend call.
ReadOnlyQueryEnforced ==
    LET blocked == <<<<"s","c","r","i","p","t">>, <<"_","u","p","d","a","t","e">>, <<"_","d","e","l","e","t","e">>, <<"_","b","u","l","k">>, <<"c","t","x",".","_","s","o","u","r","c","e">>>>
        text == toLowerCase(stringify(Get(input, <<"q","u","e","r","y">>)))
        found == {k \in DOMAIN blocked : includes(text, blocked[k])}
    IN  (/\ pc # "idle"
         /\ tool = "kibana_search"
         /\ validateIndexName(Get(input, <<"i","n","d","e","x">>).v).ok) =>
            IF found = {}
            THEN calls # <<>>
            ELSE /\ calls = <<>>
                 /\ outcome = Thrown(Error(ReadOnlyMessage(blocked[SetMin(found)])))
                 /\ pc = "returned" =>
                        returned.value =
                            Failure(JStr(ReadOnlyMessage(blocked[SetMin(found)])))

ReadOnlyQueryEnforced_witness ==
    /\ pc = "returned"
    /\ tool = "kibana_search"
    /\ Get(input, <<"q","u","e","r","y">>) = NoteQuery
    /\ returned.value = Failure(JStr(ReadOnlyMessage(<<"_","d","e","l","e","t","e">>)))
    /\ calls = <<>>

\* C11: the size field of every search request sent is the smaller of the
\* requested size and maxSearchSize, which lies in 1..500; it is the only
\* size field of the request, whatever size the query body carried.
RequestSizeCapped ==
    \A c \in DOMAIN calls :
        (calls[c].op = "search" /\ calls[c].request # Undefined) =>
            LET sent == calls[c].request.body
                requested == Get(input, <<"s","i","z","e">>).v
                cap == config.maxSearchSize
            IN  /\ cap >= 1 /\ cap <= 500
                /\ Get(sent, <<"s","i","z","e">>).t = "num"
                /\ Get(sent, <<"s","i","z","e">>).v <= cap
                /\ Get(sent, <<"s","i","z","e">>).v = IF requested < cap THEN requested ELSE cap
                /\ Cardinality({i \in DOMAIN sent.v : sent.v[i][1] = <<"s","i","z","e">>}) = 1

RequestSizeCapped_witness ==
    /\ pc = "returned"
    /\ config.maxSearchSize = 500
    /\ Get(input, <<"s","i","z","e">>).v = 600
    /\ Get(Get(input, <<"q","u","e","r","y">>), <<"s","i","z","e">>) = JNum(1000)
    /\ calls[1].responses = <<200>>
    /\ Get(calls[1].request.body, <<"s","i","z","e">>) = JNum(500)

\* C12, as claimed: the input_parameters field of every audit entry is at
\* most 500 characters long; a serialization of at most 500 characters is
\* written unchanged, a longer one is cut and carries the truncation marker.
InputParametersCapped ==
    \A i \in DOMAIN stderr :
        LET serialized == stringify(input)
            field == stderr[i].input_parameters
        IN  /\ Len(field) <= 500
            /\ Len(serialized) <= 500 => field = serialized
            /\ Len(serialized) > 500 =>
                   /\ field # serialized
                   /\ includes(field, <<".",".",".","[","t","r","u","n","c","a","t","e","d","]">>)

\* C13: for a body with a bool clause, merging a time range sends a bool
\* clause whose filter list is the filters it had, in order (a single
\* clause as one entry, none when absent), followed by one range filter on
\* @timestamp; the other keys of the clause and the top-level keys other
\* than query keep their values and order (size is set by the client).
MergeIntoBoolClause ==
    LET body == Get(input, <<"q","u","e","r","y">>)
        time_range == Get(input, <<"t","i","m","e","_","r","a","n","g","e">>)
        bool == Get(Get(body, <<"q","u","e","r","y">>), <<"b","o","o","l">>)
        sent == calls[1].request.body
        merged == Get(Get(sent, <<"q","u","e","r","y">>), <<"b","o","o","l">>)
        old == Get(bool, <<"f","i","l","t","e","r">>)
        entries == IF old.t = "arr" THEN old.v
                   ELSE IF old.t = "undef" THEN <<>> ELSE <<old>>
        range == JObj(<< <<<<"r","a","n","g","e">>,
                           JObj(<< <<<<"@","t","i","m","e","s","t","a","m","p">>,
                                     JObj(<< <<<<"g","t","e">>, time_range>>,
                                             <<<<"l","t","e">>, JStr(<<"n","o","w">>)>> >>)>> >>)>> >>)
        notFilter(kv) == kv[1] # <<"f","i","l","t","e","r">>
        topLevel(kv) == kv[1] \notin {<<"q","u","e","r","y">>, <<"s","i","z","e">>}
    IN  (/\ tool = "kibana_search"
         /\ calls # <<>>
         /\ Truthy(time_range)
         /\ Truthy(bool)) =>
            /\ Get(merged, <<"f","i","l","t","e","r">>) = JArr(entries \o <<range>>)
            /\ Len(Get(merged, <<"f","i","l","t","e","r">>).v) = Len(entries) + 1
            /\ SelectSeq(merged.v, notFilter) = SelectSeq(bool.v, notFilter)
            /\ Cardinality({i \in DOMAIN merged.v : merged.v[i][1] = <<"f","i","l","t","e","r">>}) = 1
            /\ SelectSeq(sent.v, topLevel) = SelectSeq(body.v, topLevel)

MergeIntoBoolClause_witness ==
    /\ pc = "returned"
    /\ Truthy(Get(input, <<"t","i","m","e","_","r","a","n","g","e">>))
    /\ Get(Get(Get(Get(input, <<"q","u","e","r","y">>), <<"q","u","e","r","y">>), <<"b","o","o","l">>), <<"m","u","s","t","_","n","o","t">>).t = "obj"
    /\ Len(Get(Get(Get(calls[1].request.body, <<"q","u","e","r","y">>), <<"b","o","o","l">>), <<"f","i","l","t","e","r">>).v) = 3
    /\ Get(calls[1].request.body, <<"s","o","r","t">>).t = "str"

\* C14: for a body whose query is not a bool clause, merging a time range
\* sends query = bool with must = [the original query] and filter = [the
\* range filter]; the other top-level keys keep their values and order.
MergeWrapsQuery ==
    LET body == Get(input, <<"q","u","e","r","y">>)
        time_range == Get(input, <<"t","i","m","e","_","r","a","n","g","e">>)
        sent == calls[1].request.body
        range == JObj(<< <<<<"r","a","n","g","e">>,
                           JObj(<< <<<<"@","t","i","m","e","s","t","a","m","p">>,
                                     JObj(<< <<<<"g","t","e">>, time_range>>,
                                             <<<<"l","t","e">>, JStr(<<"n","o","w">>)>> >>)>> >>)>> >>)
        topLevel(kv) == kv[1] \notin {<<"q","u","e","r","y">>, <<"s","i","z","e">>}
    IN  (/\ tool = "kibana_search"
         /\ calls # <<>>
         /\ Truthy(time_range)
         /\ Truthy(Get(body, <<"q","u","e","r","y">>))
         /\ ~Truthy(Get(Get(body, <<"q","u","e","r","y">>), <<"b","o","o","l">>))) =>
            /\ Get(sent, <<"q","u","e","r","y">>) =
                   JObj(<< <<<<"b","o","o","l">>,
                             JObj(<< <<<<"m","u","s","t">>, JArr(<<Get(body, <<"q","u","e","r","y">>)>>)>>,
                                     <<<<"f","i","l","t","e","r">>, JArr(<<range>>)>> >>)>> >>)
            /\ SelectSeq(sent.v, topLevel) = SelectSeq(body.v, topLevel)

MergeWrapsQuery_witness ==
    /\ pc = "returned"
    /\ Truthy(Get(input, <<"t","i","m","e","_","r","a","n","g","e">>))
    /\ Get(Get(input, <<"q","u","e","r","y">>), <<"f","r","o","m">>) = JNum(5)
    /\ Get(calls[1].request.body, <<"f","r","o","m">>) = JNum(5)
    /\ Get(Get(Get(calls[1].request.body, <<"q","u","e","r","y">>), <<"b","o","o","l">>), <<"m","u","s","t">>).t = "arr"

\* C15: every body has exactly one shape, the one its keys give; for a
\* body without a query, merging time range T sends query = bool with
\* filter = [range on @timestamp, gte T, lte "now"] and nothing else, the
\* original top-level keys kept; without a time range the body sent is the
\* original one apart from the size field.
MergeWithoutQuery ==
    LET body == Get(input, <<"q","u","e","r","y">>)
        time_range == Get(input, <<"t","i","m","e","_","r","a","n","g","e">>)
        sent == calls[1].request.body
        range == JObj(<< <<<<"r","a","n","g","e">>,
                           JObj(<< <<<<"@","t","i","m","e","s","t","a","m","p">>,
                                     JObj(<< <<<<"g","t","e">>, time_range>>,
                                             <<<<"l","t","e">>, JStr(<<"n","o","w">>)>> >>)>> >>)>> >>)
        hasBool == Truthy(Get(Get(body, <<"q","u","e","r","y">>), <<"b","o","o","l">>))
        hasOther == Truthy(Get(body, <<"q","u","e","r","y">>)) /\ ~hasBool
        noClause == ~Truthy(Get(body, <<"q","u","e","r","y">>))
        topLevel(kv) == kv[1] \notin {<<"q","u","e","r","y">>, <<"s","i","z","e">>}
        notSize(kv) == kv[1] # <<"s","i","z","e">>
    IN  (tool = "kibana_search" /\ calls # <<>>) =>
            /\ classifyQuery(body) = "has_bool" <=> hasBool
            /\ classifyQuery(body) = "has_query" <=> hasOther
            /\ classifyQuery(body) = "no_query" <=> noClause
            /\ Cardinality({shape \in {"has_bool", "has_query", "no_query"} :
                               classifyQuery(body) = shape}) = 1
            /\ (noClause /\ Truthy(time_range)) =>
                   /\ Get(sent, <<"q","u","e","r","y">>) =
                          JObj(<< <<<<"b","o","o","l">>, JObj(<< <<<<"f","i","l","t","e","r">>, JArr(<<range>>)>> >>)>> >>)
                   /\ SelectSeq(sent.v, topLevel) = SelectSeq(body.v, topLevel)
            /\ ~Truthy(time_range) =>
                   SelectSeq(sent.v, notSize) = SelectSeq(body.v, notSize)

MergeWithoutQuery_witness ==
    /\ pc = "returned"
    /\ Get(input, <<"t","i","m","e","_","r","a","n","g","e">>) = JStr(<<"n","o","w","-","2","4","h">>)
    /\ Get(Get(input, <<"q","u","e","r","y">>), <<"q","u","e","r","y">>) = Undefined
    /\ Get(Get(input, <<"q","u","e","r","y">>), <<"s","o","r","t">>).t = "str"
    /\ Get(calls[1].request.body, <<"s","o","r","t">>).t = "str"
    /\ Len(Get(Get(Get(calls[1].request.body, <<"q","u","e","r","y">>), <<"b","o","o","l">>), <<"f","i","l","t","e","r">>).v) = 1

\* C16 (as stated): a 16-digit sequence, contiguous or grouped 4-4-4-4 by
\* spaces or hyphens, that fails the Luhn checksum comes out of redaction
\* unmodified, with redaction count 0 and no category, wherever it stands.
LuhnFailingUnmodified ==
    LET grouped16(seq) ==
            /\ Len(digitsOf(seq)) = 16
            /\ IsDigit(seq[1]) /\ IsDigit(seq[Len(seq)])
            /\ \A i \in DOMAIN seq :
                   ~IsDigit(seq[i]) =>
                       /\ seq[i] \in {" ", "-"}
                       /\ IsDigit(seq[i - 1])
                       /\ Len(digitsOf(SubSeq(seq, 1, i))) \in {4, 8, 12}
    IN  Redacted =>
            \A ctx \in Contexts, token \in Tokens :
                (/\ deliveredText = ctx[1] \o token \o ctx[2]
                 /\ grouped16(token)
                 /\ ~luhnCheck(token)) =>
                    /\ redactedText = deliveredText
                    /\ final.redactionCount = 0
                    /\ final.redactedTypes = <<>>

\* C16 (amended): such a sequence is never masked by the credit_card pattern
\* and never recorded as credit_card; standing alone or between words of
\* lowercase letters and spaces it comes out unmodified with count 0 and no
\* category (after a + or before an @ the phone or email pattern may still
\* mask characters of it).
LuhnFailingNotMaskedAsCard ==
    LET grouped16(seq) ==
            /\ Len(digitsOf(seq)) = 16
            /\ IsDigit(seq[1]) /\ IsDigit(seq[Len(seq)])
            /\ \A i \in DOMAIN seq :
                   ~IsDigit(seq[i]) =>
                       /\ seq[i] \in {" ", "-"}
                       /\ IsDigit(seq[i - 1])
                       /\ Len(digitsOf(SubSeq(seq, 1, i))) \in {4, 8, 12}
        words(s) == \A i \in DOMAIN s : IsLower(s[i]) \/ s[i] = " "
    IN  Redacted =>
            \A ctx \in Contexts, token \in Tokens :
                (/\ deliveredText = ctx[1] \o token \o ctx[2]
                 /\ grouped16(token)
                 /\ ~luhnCheck(token)) =>
                    /\ "credit_card" \notin Range(final.redactedTypes)
                    /\ ~includes(redactedText, <<"*","*","*","*">>)
                    /\ (words(ctx[1]) /\ words(ctx[2])) =>
                           /\ redactedText = deliveredText
                           /\ final.redactionCount = 0
                           /\ final.redactedTypes = <<>>

LuhnFailingNotMaskedAsCard_witness ==
    /\ pc = "returned"
    /\ deliveredText = <<"c","a","r","d"," ","1","2","3","4","-","5","6","7","8","-","9","0","1","2","-","3","4","5","6"," ","d","e","c","l","i","n","e","d">>
    /\ redactedText = <<"c","a","r","d"," ","1","2","3","4","-","5","6","7","8","-","9","0","1","2","-","3","4","5","6"," ","d","e","c","l","i","n","e","d">>
    /\ final.redactionCount = 0

\* C17: a Luhn-valid card-like sequence of 13 to 19 digits, contiguous or
\* grouped by spaces or hyphens, is masked: the digits left in the output
\* are the last 4 digits of the input, the redaction count is 1 and the
\* category credit_card is recorded.
LuhnValidMasked ==
    LET cardLike(seq) ==
            /\ Len(digitsOf(seq)) \in 13..19
            /\ IsDigit(seq[1]) /\ IsDigit(seq[Len(seq)])
            /\ \A i \in DOMAIN seq :
                   ~IsDigit(seq[i]) => seq[i] \in {" ", "-"} /\ IsDigit(seq[i - 1])
    IN  Redacted =>
            \A token \in Tokens :
                (deliveredText = token /\ cardLike(token) /\ luhnCheck(token)) =>
                    /\ digitsOf(redactedText) = LastN(digitsOf(token), 4)
                    /\ final.redactionCount = 1
                    /\ final.redactedTypes = <<"credit_card">>

\* C18: redacting the redacted result again returns the same data with
\* redaction count 0.
RedactionIdempotent ==
    Redacted =>
        LET again == redactPII(final.finalResult)
        IN  /\ again.redactedData = final.finalResult
            /\ again.redactionCount = 0

\* C20: a token made of +, a country code of 1 to 3 digits and further digit
\* groups separated by space, dot or hyphen, with 8 or more digits, is
\* masked to + first 2 digits *** last 2 digits, as one phone redaction.
PhoneMasked ==
    LET phoneLike(seq) ==
            /\ seq[1] = "+"
            /\ Len(digitsOf(seq)) >= 8
            /\ IsDigit(seq[2]) /\ IsDigit(seq[Len(seq)])
            /\ \A i \in 2..Len(seq) :
                   ~IsDigit(seq[i]) => seq[i] \in {" ", ".", "-"} /\ IsDigit(seq[i - 1])
            /\ \E i \in 3..5 : ~IsDigit(seq[i])
    IN  Redacted =>
            \A token \in Tokens :
                (deliveredText = token /\ phoneLike(token)) =>
                    /\ redactedText = <<"+">> \o SubSeq(digitsOf(token), 1, 2) \o <<"*","*","*">>
                                          \o LastN(digitsOf(token), 2)
                    /\ final.redactionCount = 1
                    /\ final.redactedTypes = <<"phone">>

FailureMessagePriority ==
    (pc \in {"redact", "audit", "return", "returned", "raised"} /\ ~outcome.ok) =>
        LET data == outcome.error.response.data
            reason == Get(Get(data, <<"e","r","r","o","r">>), <<"r","e","a","s","o","n">>)
            message == Get(data, <<"m","e","s","s","a","g","e">>)
        IN  /\ pc # "raised"
            /\ IsFailure(result)
            /\ Get(result, <<"e","r","r","o","r">>) =
                   IF reason.t = "str" /\ reason.v # <<>> THEN reason
                   ELSE IF message.t = "str" /\ message.v # <<>> THEN message
                   ELSE IF outcome.error.message # <<>> THEN JStr(outcome.error.message)
                   ELSE JStr(<<"U","n","k","n","o","w","n"," ","e","r","r","o","r">>)

RedactionPreservesShape ==
    LET RECURSIVE sameShape(_, _)
        sameShape(a, b) ==
            /\ a.t = b.t
            /\ CASE a.t = "str" -> TRUE
                 [] a.t = "arr" ->
                        /\ Len(a.v) = Len(b.v)
                        /\ \A i \in DOMAIN a.v : sameShape(a.v[i], b.v[i])
                 [] a.t = "obj" ->
                        /\ Len(a.v) = Len(b.v)
                        /\ \A i \in DOMAIN a.v :
                               a.v[i][1] = b.v[i][1] /\ sameShape(a.v[i][2], b.v[i][2])
                 [] OTHER -> a = b
    IN  Redacted =>
            /\ result = outcome.value
            /\ sameShape(result, final.finalResult)
            /\ final.redactionCount = 0 => final.finalResult = result

\* C24: when all of N concurrent invocations have ended, the audit sink
\* holds exactly N records, one for each invocation (its tool, its input,
\* its status and its redaction count), and what each invocation returned
\* is what the pipeline makes of its own input and its own backend calls.
OneRecordPerInvocation ==
    (\A i \in Tasks : pc[i] \in {"returned", "raised"}) =>
        /\ Len(stderr) = NumTasks
        /\ \E order \in [Tasks -> DOMAIN stderr] :
              /\ \A i, j \in Tasks : order[i] = order[j] => i = j
              /\ \A i \in Tasks :
                    /\ stderr[order[i]].tool_called = tool[i]
                    /\ stderr[order[i]].input_parameters = stringify(input[i])
                    /\ stderr[order[i]].redaction_count = final[i].redactionCount
                    /\ stderr[order[i]].status = "success" <=> IsSuccess(returned[i].value)
        /\ \A i \in Tasks :
              LET own == toolResumeOf(tool[i], input[i], calls[i], 0, Undefined).outcome
              IN  /\ returned[i].ok
                  /\ returned[i].value =
                         redactionStep(config, normalize(own).value).finalResult


\* C25: discover_cluster fetches the mappings of the selected indices in
\* parallel; whatever the order in which the fetches settle and whichever of
\* them fail, the logic returns Success, the returned indices are in
\* doc-count-descending order and number at most max_indices, an index whose
\* fetch failed has an empty field list, and every other index has the
\* fields of its own mapping.
discoveredOf(value) == Get(Get(value, <<"d","a","t","a">>), <<"i","n","d","i","c","e","s">>).v

DiscoverTolerant ==
    (tool = "discover_cluster" /\ awaits = 2) =>
        /\ outcome.ok
        /\ IsSuccess(outcome.value)
        /\ LET indices == discoveredOf(outcome.value)
           IN  /\ Len(indices) = Len(calls) - 1
               /\ \A i \in DOMAIN indices : \A j \in DOMAIN indices :
                      i < j => docCount(indices[i]) >= docCount(indices[j])
               /\ \A i \in DOMAIN indices :
                      /\ calls[i + 1].target = indexName(indices[i])
                      /\ calls[i + 1].st = "thrown" =>
                             Get(indices[i], <<"f","i","e","l","d","s">>) = JArr(<<>>)
                      /\ calls[i + 1].st = "returned" =>
                             Get(indices[i], <<"f","i","e","l","d","s">>) =
                                 JArr(deduplicateFields(
                                          fieldsOfMapping(MappingData(indexName(indices[i])).v), {}))

DiscoverCapped ==
    (tool = "discover_cluster" /\ awaits = 2) =>
        Len(discoveredOf(outcome.value)) <= Get(input, <<"m","a","x","_","i","n","d","i","c","e","s">>).v

DiscoverClusterParallel == DiscoverTolerant /\ DiscoverCapped

\* Two fetches were in flight, the first listed index's fetch failed and the
\* second's returned, the first after a retry.
DiscoverClusterParallel_witness ==
    /\ tool = "discover_cluster" /\ awaits = 2 /\ pc = "returned"
    /\ Len(calls) = 3
    /\ calls[2].st = "thrown" /\ calls[2].attempt > 1
    /\ calls[3].st = "returned"

\* C26: whatever retryAttempts is configured (0 included), a call of
\* withRetry that fails has made at least one attempt, and the value it
\* throws is the failure its last attempt raised, never a value that no
\* attempt produced.
RetryPropagatesOwnFailure ==
    \A c \in DOMAIN calls :
        (calls[c].request # Undefined /\ calls[c].st = "thrown") =>
            /\ Len(calls[c].responses) >= 1
            /\ Thrown(calls[c].lastError) \in Responses(calls[c])
            /\ calls[c].lastError.response.status =
                   calls[c].responses[Len(calls[c].responses)]

\* C27: with a non-empty allow-list, search and mapping lookup send an HTTP
\* request for a comma-separated index expression only if every component
\* of the expression glob-matches an allow-list pattern; an expression with
\* a component that matches no pattern is rejected without a backend call.
CommaComponentsChecked ==
    \A c \in DOMAIN calls :
        LET parts == splitComma(calls[c].target, <<>>)
            requested == \/ calls[c].responses # <<>>
                         \/ calls[c].request # Undefined /\ calls[c].st = "attempting"
        IN  (config.allowedIndexPatterns # <<>> /\ calls[c].op \in {"search", "getMapping"}) =>
                /\ requested =>
                       \A k \in DOMAIN parts :
                           isAllowed(config.allowedIndexPatterns, parts[k])
                /\ (\E k \in DOMAIN parts :
                        ~isAllowed(config.allowedIndexPatterns, parts[k])) =>
                       /\ calls[c].st = "thrown"
                       /\ calls[c].responses = <<>>
                       /\ calls[c].request = Undefined

\* C28: every search body kibana_search sends to the backend, the
\* time-range filter injected after validation included, is free of blocked
\* keywords: the lower-cased serialization of the body of a search request
\* contains none of script, _update, _delete, _bulk, ctx._source.
SentBodyReadOnly ==
    \A c \in DOMAIN calls :
        (tool = "kibana_search" /\ calls[c].op = "search" /\ calls[c].request # Undefined) =>
            \A k \in DOMAIN BLOCKED_KEYWORDS :
                ~includes(toLowerCase(stringify(calls[c].request.body)), BLOCKED_KEYWORDS[k])

\* C29: with a non-empty allow-list, no Success payload returned by
\* kibana_search, list_indices, discover_cluster, get_index_mappings or
\* check_cluster_health (at any level) contains data about an index whose
\* name matches no allow-list pattern.
keysOf(obj) == [i \in DOMAIN obj.v |-> obj.v[i][1]]

\* The names of the indices the payload of a Success has data about: the
\* indices named in a listing or a health report, and the indices the
\* answered request resolved to for a search or a mapping lookup.
exposedIndices ==
    LET data == Get(returned.value, <<"d","a","t","a">>)
    IN  CASE tool \in {"kibana_search", "get_index_mappings"} ->
                 Range(Resolve(calls[1].target))
          [] tool = "list_indices" ->
                 {indexName(data.v[i]) : i \in DOMAIN data.v}
          [] tool = "discover_cluster" ->
                 {indexName(Get(data, <<"i","n","d","i","c","e","s">>).v[i]) : i \in DOMAIN Get(data, <<"i","n","d","i","c","e","s">>).v}
          [] tool = "check_cluster_health" ->
                 Range(keysOf(Get(data, <<"i","n","d","i","c","e","s">>)))
          [] OTHER -> {}

PayloadWithinScope ==
    (/\ pc = "returned"
     /\ returned.ok
     /\ IsSuccess(returned.value)
     /\ config.allowedIndexPatterns # <<>>) =>
        \A name \in exposedIndices : isAllowed(config.allowedIndexPatterns, name)

\* C30: kibana_search never modifies the caller's input parameters: from
\* the call on, the input object is equal at every depth to what it was,
\* the audit entry carries the serialization of that input, and merging the
\* time range into the caller's body again gives the body that was sent,
\* with one range filter more than the caller's body, not two.
InputAsSent ==
    LET query == Get(callerInput, <<"q","u","e","r","y">>)
        time_range == Get(callerInput, <<"t","i","m","e","_","r","a","n","g","e">>)
        again == IF Truthy(time_range) THEN mergeTimeRange(query, time_range) ELSE query
        filtersOf(body) == existingFilters(Get(Get(body, <<"q","u","e","r","y">>), <<"b","o","o","l">>))
    IN  /\ (pc \in {"return", "returned"} /\ config.auditEnabled) =>
               /\ Len(stderr) = 1
               /\ stderr[1].input_parameters =
                      log(TRUE, <<>>, auditEntry(tool, callerInput, final.finalResult, 0, <<>>))[1].input_parameters
               /\ \E inv \in SearchInvocations : inv[2] = callerInput
        /\ calls # <<>> =>
               /\ calls[1].request.body =
                      Put(again, <<"s","i","z","e">>, JNum(Min(sizeOrDefault(Get(callerInput, <<"s","i","z","e">>)),
                                                 config.maxSearchSize)))
               /\ Truthy(time_range) =>
                      Len(filtersOf(calls[1].request.body)) = Len(filtersOf(query)) + 1

InputNeverModified ==
    /\ [][pc # "idle" => callerInput' = callerInput]_vars
    /\ [](pc \notin {"idle", "called"} => InputAsSent)

\* A search with a time range whose bool clause already had a filter list
\* was answered, audited and returned.
InputNeverModified_witness ==
    /\ pc = "returned"
    /\ IsSuccess(returned.value)
    /\ Len(stderr) = 1
    /\ Truthy(Get(callerInput, <<"t","i","m","e","_","r","a","n","g","e">>))
    /\ Get(Get(Get(Get(callerInput, <<"q","u","e","r","y">>), <<"q","u","e","r","y">>), <<"b","o","o","l">>), <<"f","i","l","t","e","r">>).t = "arr"
    /\ Get(Get(Get(Get(callerInput, <<"q","u","e","r","y">>), <<"q","u","e","r","y">>), <<"b","o","o","l">>), <<"f","i","l","t","e","r">>).v # <<>>
=============================================================================
